---- MODULE Spec2Model ----
(***************************************************************************)
(* State-machine model of WiseledCommunicator (src/serial_comm.py): the    *)
(* command channel (send_command), the reader thread with its line framer, *)
(* the dispatch thread with its event fan-out, connect and disconnect.     *)
(*                                                                         *)
(* Every Python thread is a process with a program counter.  A step of a   *)
(* process is one access to a shared attribute of the communicator, so the *)
(* interleavings of the model are those of the threads of the program.     *)
(***************************************************************************)
EXTENDS Integers, Sequences, FiniteSets, TLC

\* The threads that call the public API: the UI thread and one worker.
Threads == {"main", "worker"}
\* The contexts a call of send_command runs in: these threads, and the
\* dispatch thread itself when a subscriber it runs calls send_command.
Contexts == Threads \cup {"dispatch"}

\* Bound: send_command calls made through the public API in a run.
MaxCalls == 2

\* Bounds of the runs with a slow worker: the calls the UI thread makes one
\* after the other, and the calls the worker makes meanwhile.
MaxMainCalls == 3
MaxWorkerCalls == 1

\* Bound: lines the device sends unsolicited (events, noise) in a run.
MaxLines == 3

\* Bound: events the device sends in the runs that register and unregister.
MaxEvents == 2

\* The connects the UI thread makes on one communicator.
MaxConnects == 2

\* Bound: runs of the UI script (render cycles) in a run of the application.
MaxCycles == 2

\* The event subscribers that exist (callables passed to register).
Subscribers == {"s1", "s2"}

VARIABLES
    \* ---- attributes of WiseledCommunicator (__init__) ----
    serial_port,          \* "none" (None) or "open" (a serial.Serial)
    connected,
    running,
    message_queue,        \* queue.Queue of parsed JSON values
    event_callbacks,      \* list of subscribers
    response_callbacks,   \* dict: command id -> closure (the thread whose call made it)
    command_id_counter,
    receive_thread,       \* "none" or "set": the attribute holding the Thread
    process_thread,
    buffer,               \* text received and not yet split into lines
    \* ---- the two background threads ----
    rpc,                  \* reader:     "none" | "run" | "stopped"
    dpc,                  \* dispatcher: "none" | "get" | "route" | "fetch" | "fanout" |
                          \* "callback" (inside a subscriber that sends) | "stopped"
    dmsg,                 \* the message the dispatcher holds
    didx,                 \* position of the dispatcher's iterator in event_callbacks
    \* ---- the calling threads ----
    pc,                   \* position of each thread
    ctx,                  \* "none", or the public operation the thread is in:
                          \* "connect" ("reconnect" during its disconnect of line
                          \* 48), a facade operation, "callback"
    cmd_id,               \* local cmd_id (the number n of "cmd-n")
    tmp,                  \* value loaded by command_id_counter += 1
    response,             \* local response[0]
    response_event,       \* local response_event (is it set)
    ret,                  \* value the current send_command call will return
    how,                  \* the return statement it left by
    ncall,                \* send_command calls the thread has started
    preceding,            \* calls that had returned when the current call began
    result,               \* value returned by the thread's last public call
    \* ---- the serial line and the device ----
    wire,                 \* what the program wrote, in order
    rx,                   \* what the device sent and the program has not read
    answered,             \* commands the device has answered
    nlines,               \* unsolicited lines the device has sent
    \* ---- history ----
    done,                 \* completed send_command calls: [call, id, ret, how]
    extracted,            \* values the framer enqueued, in order
    dispatched,           \* values the dispatcher dequeued, in order
    delivered,            \* subscriber invocations: <<subscriber, message, raised>>
    waitingAtDisconnect,  \* calls that were blocked in wait() when disconnect began
    fanouts,              \* the fan-outs begun: [msg, end, open], the list at the end
                          \* of the loop; and while the loop runs [start, removed],
                          \* the list at its start and the subscribers removed since
    atConnect,            \* how many values had been extracted and dispatched
                          \* when the threads of the current connection started
    \* ---- the application (src/app.py) ----
    lists,                \* the list objects made for pending_events, by identity
    pending_events,       \* WiseledCommunicator.pending_events: the list it refers to
    alarm_refresh_needed, \* WiseledCommunicator.alarm_refresh_needed
    alarm_status,         \* st.session_state.alarm_status
    event_log,            \* st.session_state.event_log
    hpc,                  \* handle_event (dispatch thread): "idle" | "append" | "flag"
    href,                 \* the list handle_event is about to append to
    hentry,               \* the entry it is about to append
    upc,                  \* the UI script: "idle" | "drain" | "swap" | "apply" | "refresh" |
                          \* "connect" | "disconnect" (inside the communicator's call)
    dref,                 \* process_pending_events: its local pending_events
    dix,                  \* position of its loop in that list
    enqueued,             \* history: the entries handle_event appended, in order
    session_connected,    \* st.session_state.connected
    alarms                \* what get_alarm_status returned last to refresh_alarm_status
                          \* (its local alarm_status) or to force_refresh_alarms

appVars == <<lists, pending_events, alarm_refresh_needed, alarm_status, event_log,
             hpc, href, hentry, upc, dref, dix, enqueued, session_connected, alarms>>

vars == <<serial_port, connected, running, message_queue, event_callbacks,
          response_callbacks, command_id_counter, receive_thread, process_thread,
          buffer, rpc, dpc, dmsg, didx, pc, ctx, cmd_id, tmp, response,
          response_event, ret, how, ncall, preceding, result, wire, rx, answered,
          nlines, done, extracted, dispatched, delivered, waitingAtDisconnect, fanouts,
          atConnect, appVars>>

commVars  == <<serial_port, connected, running, receive_thread, process_thread>>
tableVars == <<response_callbacks, command_id_counter>>
readerVars == <<buffer, rpc, extracted>>
dispVars  == <<dpc, dmsg, didx, dispatched, delivered>>
localVars == <<cmd_id, tmp, response, response_event, ret, how, ncall, preceding>>
lineVars  == <<wire, rx, answered, nlines>>

-----------------------------------------------------------------------------
(* Values *)

\* A call of send_command: the thread and the number of its call.  It stands
\* for the (topic, action, data) of the command, which the response echoes.
NoCall == <<"", 0>>
CurCall(t) == <<t, ncall[t]>>

\* A parsed JSON value.  isdict: a JSON object (a Python dict).  type, id and
\* status are what message.get("type"), .get("id", "") and
\* .get("data", {}).get("status") give; re is the command the data answers.
\* result is the field of data a query reads (data.get("active_alarms"),
\* data.get("intensities"), ...): "absent", "empty" for the list [], "items"
\* for a list with elements; it is "" in a value that carries no data.
MsgWith(ty, i, c, st, res) ==
    [isdict |-> TRUE, type |-> ty, id |-> i, re |-> c, status |-> st, result |-> res]
Msg(ty, i, c, st) == MsgWith(ty, i, c, st, "absent")
\* The ping of the UI thread's first connect(), and the device's answer to it.
PingCall == <<"main", 1>>
PingResponse == Msg("resp", 1, PingCall, "ok")
\* A JSON value that is not an object, such as the number 4.
NonDict == [isdict |-> FALSE, type |-> "number", id |-> 0, re |-> NoCall, status |-> "",
    result |-> ""]
\* Python's None.
PyNone == [isdict |-> FALSE, type |-> "None", id |-> 0, re |-> NoCall, status |-> "",
    result |-> ""]
\* The result of a json.loads that raised JSONDecodeError.
DecodeError == [isdict |-> FALSE, type |-> "JSONDecodeError", id |-> 0, re |-> NoCall, status |-> "",
    result |-> ""]
\* An exception that left the public call.
KeyErrorRaised == [isdict |-> FALSE, type |-> "KeyError", id |-> 0, re |-> NoCall, status |-> "",
    result |-> ""]

\* Python's True and False, as returned by connect and disconnect.
PyTrue == [isdict |-> FALSE, type |-> "True", id |-> 0, re |-> NoCall, status |-> "",
    result |-> ""]
PyFalse == [isdict |-> FALSE, type |-> "False", id |-> 0, re |-> NoCall, status |-> "",
    result |-> ""]
\* A Python list a facade operation returns: "empty" for [], "items" otherwise.
PyList(res) == [isdict |-> FALSE, type |-> "list", id |-> 0, re |-> NoCall, status |-> "",
    result |-> res]

-----------------------------------------------------------------------------
(* Text: a string is a sequence of characters.  The text of a JSON object  *)
(* is "{", its content, "}"; the content is one character here.            *)

NL == <<"\n">>
SP == <<" ">>
LB == <<"{">>
RB == <<"}">>
DIGIT == <<"4">>

\* json.dumps of an object.
dumps(m) == << LB, <<"o", m>>, RB >>

\* json.loads: an object, a number, or JSONDecodeError.
loads(line) ==
    IF Len(line) = 3 /\ line[1] = LB /\ line[3] = RB /\ Len(line[2]) = 2
    THEN line[2][2]
    ELSE IF line = << DIGIT >> THEN NonDict
    ELSE DecodeError

\* str.strip(): drop leading and trailing whitespace.
RECURSIVE lstrip(_)
lstrip(s) == IF s # << >> /\ Head(s) = SP THEN lstrip(Tail(s)) ELSE s
RECURSIVE rstrip(_)
rstrip(s) == IF s # << >> /\ s[Len(s)] = SP THEN rstrip(SubSeq(s, 1, Len(s) - 1)) ELSE s
strip(s) == rstrip(lstrip(s))

\* Index of the first "\n" of s, 0 if there is none.
RECURSIVE find_nl(_, _)
find_nl(s, i) == IF i > Len(s) THEN 0 ELSE IF s[i] = NL THEN i ELSE find_nl(s, i + 1)

\* bytes.decode('utf-8', errors='replace'): an invalid byte becomes U+FFFD.
BADBYTE == <<"\\xff">>
REPL == <<"U+FFFD">>
decode(data) == [i \in 1..Len(data) |-> IF data[i] = BADBYTE THEN REPL ELSE data[i]]

\* queue.Queue.put: at the end of the queue.
put(q, v) == Append(q, v)

\* A queue that gives its newest element first (a LifoQueue).
get_index_lifo(q) == Len(q)

\* queue.Queue.get: the position of the element it takes, the oldest.
get_index(q) == 1

\* Lines 207-215: the values one stripped line yields for the queue: none for
\* an empty line and for a line json.loads rejects, else the parsed value.
parse_line(line) ==
    IF line = << >> THEN << >>
    ELSE IF loads(line) = DecodeError THEN << >>
    ELSE << loads(line) >>

\* Lines 202-215: split text b at each "\n" in turn; out collects the values
\* put on the queue, in order, and buffer is the text left over.
RECURSIVE frame(_, _)
frame(b, out) ==
    LET i == find_nl(b, 1) IN
    IF i = 0 THEN [buffer |-> b, out |-> out]
    ELSE frame(SubSeq(b, i + 1, Len(b)), out \o parse_line(strip(SubSeq(b, 1, i - 1))))

\* message_queue.put of each value of vs in turn.
RECURSIVE put_all(_, _)
put_all(q, vs) == IF vs = << >> THEN q ELSE put_all(put(q, Head(vs)), Tail(vs))

\* A dict with key k set to v / with key k deleted.
dict_set(d, k, v) == [x \in DOMAIN d \cup {k} |-> IF x = k THEN v ELSE d[x]]
dict_del(d, k) == [x \in DOMAIN d \ {k} |-> d[x]]

-----------------------------------------------------------------------------
\* The application after the first run of its script: app.py lines 53-54,
\* 102-103, 1039-1040.
AppInit ==
    /\ lists = << << >> >>
    /\ pending_events = 1
    /\ alarm_refresh_needed = FALSE
    /\ alarm_status = << >>
    /\ event_log = << >>
    /\ hpc = "idle"
    /\ href = 0
    /\ hentry = 0
    /\ upc = "idle"
    /\ dref = 0
    /\ dix = 0
    /\ enqueued = << >>
    /\ session_connected = connected
    /\ alarms = << >>

Init ==
    /\ serial_port = "none"
    /\ connected = FALSE
    /\ running = FALSE
    /\ message_queue = << >>
    /\ event_callbacks = << >>
    /\ response_callbacks = << >>
    /\ command_id_counter = 1
    /\ receive_thread = "none"
    /\ process_thread = "none"
    /\ buffer = << >>
    /\ rpc = "none"
    /\ dpc = "none"
    /\ dmsg = PyNone
    /\ didx = 0
    /\ pc = [t \in Contexts |-> "idle"]
    /\ ctx = [t \in Contexts |-> "none"]
    /\ cmd_id = [t \in Contexts |-> 0]
    /\ tmp = [t \in Contexts |-> 0]
    /\ response = [t \in Contexts |-> PyNone]
    /\ response_event = [t \in Contexts |-> FALSE]
    /\ ret = [t \in Contexts |-> PyNone]
    /\ how = [t \in Contexts |-> ""]
    /\ ncall = [t \in Contexts |-> 0]
    /\ preceding = [t \in Contexts |-> {}]
    /\ result = [t \in Contexts |-> PyNone]
    /\ wire = << >>
    /\ rx = << >>
    /\ answered = {}
    /\ nlines = 0
    /\ done = {}
    /\ extracted = << >>
    /\ dispatched = << >>
    /\ delivered = << >>
    /\ waitingAtDisconnect = {}
    /\ fanouts = << >>
    /\ atConnect = [extracted |-> 0, dispatched |-> 0]
    /\ AppInit

-----------------------------------------------------------------------------
(* send_command, lines 123-175 *)

\* The calls that have returned.
Returned == {d.call : d \in done}

\* The return of send_command with value v: to the caller of the public API,
\* to connect() at line 74, or to the facade operation that called it (lines
\* 265-371).  The locals of the call die with it.
Finish(t, c, i, v, h, a) ==
    /\ done' = done \cup {[call |-> c, id |-> i, ret |-> v, how |-> h, after |-> a]}
    /\ preceding' = [preceding EXCEPT ![t] = {}]
    /\ pc' = [pc EXCEPT ![t] = CASE ctx[t] = "connect" -> "c_check"
                                  [] ctx[t] = "none" -> "idle"
                                  [] OTHER -> "f_return"]
    /\ ret' = [ret EXCEPT ![t] = IF ctx[t] = "none" THEN PyNone ELSE v]
    /\ cmd_id' = [cmd_id EXCEPT ![t] = 0]
    /\ tmp' = [tmp EXCEPT ![t] = 0]
    /\ response' = [response EXCEPT ![t] = PyNone]
    /\ response_event' = [response_event EXCEPT ![t] = FALSE]
    /\ how' = [how EXCEPT ![t] = ""]

\* The entry of a send_command without the check of line 126.
Enter_unchecked(t) ==
    /\ ncall' = [ncall EXCEPT ![t] = @ + 1]
    /\ pc' = [pc EXCEPT ![t] = "alloc"]
    /\ preceding' = [preceding EXCEPT ![t] = Returned]
    /\ UNCHANGED <<done, ret, cmd_id, tmp, response, response_event, how>>

\* Lines 126-128: the entry of send_command.
Enter(t) ==
    /\ ncall' = [ncall EXCEPT ![t] = @ + 1]
    /\ IF ~connected
       THEN Finish(t, <<t, ncall[t] + 1>>, 0, PyNone, "not connected", Returned)
       ELSE /\ pc' = [pc EXCEPT ![t] = "alloc"]
            /\ preceding' = [preceding EXCEPT ![t] = Returned]
            /\ UNCHANGED <<done, ret, cmd_id, tmp, response, response_event, how>>

\* Thread t is inside a send_command call it made through the public API.
InCall(t) ==
    /\ ctx[t] = "none"
    /\ pc[t] \in {"alloc", "load", "store", "register", "write", "writing", "wait",
                  "finally", "del"}

\* The send_command calls thread t has made so far through the public API,
\* and those of all threads.
ApiCalls(t) ==
    Cardinality({d \in done : d.call[1] = t /\ d.call # PingCall})
    + (IF InCall(t) THEN 1 ELSE 0)
Calls == ApiCalls("main") + ApiCalls("worker")

\* A thread calls send_command (or a facade operation, which only calls it).
SendCommand(t) ==
    /\ pc[t] = "idle"
    /\ Enter(t)
    /\ UNCHANGED <<commVars, tableVars, message_queue, event_callbacks, readerVars,
                   dispVars, ctx, result, lineVars, waitingAtDisconnect, fanouts>>
    /\ UNCHANGED <<atConnect, appVars>>

\* Line 131: cmd_id = f"cmd-{self.command_id_counter}".
Alloc(t) ==
    /\ pc[t] = "alloc"
    /\ cmd_id' = [cmd_id EXCEPT ![t] = command_id_counter]
    /\ pc' = [pc EXCEPT ![t] = "load"]
    /\ UNCHANGED <<commVars, tableVars, message_queue, event_callbacks, readerVars,
                   dispVars, ctx, tmp, response, response_event, ret, how, ncall, preceding,
                   result, lineVars, done, waitingAtDisconnect, fanouts>>
    /\ UNCHANGED <<atConnect, appVars>>

\* Line 132, self.command_id_counter += 1: the load ...
Load(t) ==
    /\ pc[t] = "load"
    /\ tmp' = [tmp EXCEPT ![t] = command_id_counter]
    /\ pc' = [pc EXCEPT ![t] = "store"]
    /\ UNCHANGED <<commVars, tableVars, message_queue, event_callbacks, readerVars,
                   dispVars, ctx, cmd_id, response, response_event, ret, how, ncall, preceding,
                   result, lineVars, done, waitingAtDisconnect, fanouts>>
    /\ UNCHANGED <<atConnect, appVars>>

\* ... and the store.
Store(t) ==
    /\ pc[t] = "store"
    /\ command_id_counter' = tmp[t] + 1
    /\ pc' = [pc EXCEPT ![t] = "register"]
    /\ UNCHANGED <<commVars, response_callbacks, message_queue, event_callbacks,
                   readerVars, dispVars, ctx, localVars, result, lineVars, done,
                   waitingAtDisconnect, fanouts>>
    /\ UNCHANGED <<atConnect, appVars>>

\* Lines 143-153: the event, the slot, the closure, and its registration.
Register(t) ==
    /\ pc[t] = "register"
    /\ response' = [response EXCEPT ![t] = PyNone]
    /\ response_event' = [response_event EXCEPT ![t] = FALSE]
    /\ response_callbacks' = dict_set(response_callbacks, cmd_id[t], CurCall(t))
    /\ pc' = [pc EXCEPT ![t] = "write"]
    /\ UNCHANGED <<commVars, command_id_counter, message_queue, event_callbacks,
                   readerVars, dispVars, ctx, cmd_id, tmp, ret, how, ncall, preceding, result,
                   lineVars, done, waitingAtDisconnect, fanouts>>
    /\ UNCHANGED <<atConnect, appVars>>

\* The frame of line 157, as the two parts a partial os.write splits it in.
Chunk(t, part) == [call |-> CurCall(t), id |-> cmd_id[t], part |-> part]

\* Line 158: self.serial_port.write(...) is entered and the first bytes go out.
WriteBegin(t) ==
    /\ pc[t] = "write"
    /\ serial_port = "open"
    /\ wire' = Append(wire, Chunk(t, "head"))
    /\ pc' = [pc EXCEPT ![t] = "writing"]
    /\ UNCHANGED <<commVars, tableVars, message_queue, event_callbacks, readerVars,
                   dispVars, ctx, localVars, result, rx, answered, nlines, done,
                   waitingAtDisconnect, fanouts>>
    /\ UNCHANGED <<atConnect, appVars>>

\* Line 158: the rest of the bytes go out and write returns; line 162 is reached.
WriteEnd(t) ==
    /\ pc[t] = "writing"
    /\ serial_port = "open"
    /\ wire' = Append(wire, Chunk(t, "tail"))
    /\ pc' = [pc EXCEPT ![t] = "wait"]
    /\ UNCHANGED <<commVars, tableVars, message_queue, event_callbacks, readerVars,
                   dispVars, ctx, localVars, result, rx, answered, nlines, done,
                   waitingAtDisconnect, fanouts>>
    /\ UNCHANGED <<atConnect, appVars>>

\* Lines 158, 168-170: write raises (serial_port is None, or the port fails).
WriteFail(t) ==
    /\ pc[t] \in {"write", "writing"}
    /\ ret' = [ret EXCEPT ![t] = PyNone]
    /\ how' = [how EXCEPT ![t] = "error"]
    /\ pc' = [pc EXCEPT ![t] = "finally"]
    /\ UNCHANGED <<commVars, tableVars, message_queue, event_callbacks, readerVars,
                   dispVars, ctx, cmd_id, tmp, response, response_event, ncall, preceding,
                   result, lineVars, done, waitingAtDisconnect, fanouts>>
    /\ UNCHANGED <<atConnect, appVars>>

\* Lines 162-163: wait() returns True, the call will return response[0].
WaitReturn(t) ==
    /\ pc[t] = "wait"
    /\ response_event[t]
    /\ ret' = [ret EXCEPT ![t] = response[t]]
    /\ how' = [how EXCEPT ![t] = "response"]
    /\ pc' = [pc EXCEPT ![t] = "finally"]
    /\ UNCHANGED <<commVars, tableVars, message_queue, event_callbacks, readerVars,
                   dispVars, ctx, cmd_id, tmp, response, response_event, ncall, preceding,
                   result, lineVars, done, waitingAtDisconnect, fanouts>>
    /\ UNCHANGED <<atConnect, appVars>>

\* Lines 162, 164-166: wait() returns False after `timeout` seconds.
Timeout(t) ==
    /\ pc[t] = "wait"
    /\ ~response_event[t]
    /\ ret' = [ret EXCEPT ![t] = PyNone]
    /\ how' = [how EXCEPT ![t] = "timeout"]
    /\ pc' = [pc EXCEPT ![t] = "finally"]
    /\ UNCHANGED <<commVars, tableVars, message_queue, event_callbacks, readerVars,
                   dispVars, ctx, cmd_id, tmp, response, response_event, ncall, preceding,
                   result, lineVars, done, waitingAtDisconnect, fanouts>>
    /\ UNCHANGED <<atConnect, appVars>>

\* Line 174: if cmd_id in self.response_callbacks.
FinallyCheck(t) ==
    /\ pc[t] = "finally"
    /\ IF cmd_id[t] \in DOMAIN response_callbacks
       THEN /\ pc' = [pc EXCEPT ![t] = "del"]
            /\ UNCHANGED <<done, ret, cmd_id, tmp, response, response_event, how,
                           preceding>>
       ELSE Finish(t, CurCall(t), cmd_id[t], ret[t], how[t], preceding[t])
    /\ UNCHANGED <<commVars, tableVars, message_queue, event_callbacks, readerVars,
                   dispVars, ctx, ncall, result, lineVars, waitingAtDisconnect, fanouts>>
    /\ UNCHANGED <<atConnect, appVars>>

\* Line 175: del self.response_callbacks[cmd_id]; KeyError if the key has gone.
FinallyDel(t) ==
    /\ pc[t] = "del"
    /\ IF cmd_id[t] \in DOMAIN response_callbacks
       THEN /\ response_callbacks' = dict_del(response_callbacks, cmd_id[t])
            /\ Finish(t, CurCall(t), cmd_id[t], ret[t], how[t], preceding[t])
       ELSE /\ UNCHANGED response_callbacks
            /\ Finish(t, CurCall(t), cmd_id[t], KeyErrorRaised, "raised", preceding[t])
    /\ UNCHANGED <<commVars, command_id_counter, message_queue, event_callbacks,
                   readerVars, dispVars, ctx, ncall, result, lineVars,
                   waitingAtDisconnect, fanouts>>
    /\ UNCHANGED <<atConnect, appVars>>

-----------------------------------------------------------------------------
(* connect, lines 43-84 *)

\* A connect that goes on to open the port without the test of line 47.
ConnectAgain_without_disconnect(t) ==
    /\ pc[t] = "idle"
    /\ connected
    /\ ctx' = [ctx EXCEPT ![t] = "connect"]
    /\ pc' = [pc EXCEPT ![t] = "c_open"]
    /\ UNCHANGED <<commVars, tableVars, message_queue, event_callbacks, readerVars,
                   dispVars, localVars, result, lineVars, done, waitingAtDisconnect,
                   fanouts>>
    /\ UNCHANGED <<atConnect, appVars>>

\* Lines 47-48: connect is called on a communicator that is connected, and
\* calls disconnect before anything else.
ConnectAgain(t) ==
    /\ pc[t] = "idle"
    /\ connected
    /\ ctx' = [ctx EXCEPT ![t] = "reconnect"]
    /\ pc' = [pc EXCEPT ![t] = "d_stop"]
    /\ UNCHANGED <<commVars, tableVars, message_queue, event_callbacks, readerVars,
                   dispVars, localVars, result, lineVars, done, waitingAtDisconnect,
                   fanouts>>
    /\ UNCHANGED <<atConnect, appVars>>


\* A connect that starts the ids of each connection at cmd-1 again.
ConnectOpen_resets_counter(t, opens) ==
    /\ \/ pc[t] = "idle" /\ ~connected
       \/ pc[t] = "c_open"
    /\ ctx' = [ctx EXCEPT ![t] = "connect"]
    /\ IF opens
       THEN /\ serial_port' = "open"
            /\ connected' = TRUE
            /\ running' = TRUE
            /\ receive_thread' = "set"
            /\ process_thread' = "set"
            /\ rpc' = "run"
            /\ dpc' = "get"
            /\ pc' = [pc EXCEPT ![t] = "ping"]
            /\ atConnect' = [extracted |-> Len(extracted),
                             dispatched |-> Len(dispatched)]
            /\ command_id_counter' = 1
       ELSE /\ pc' = [pc EXCEPT ![t] = "d_stop"]
            /\ UNCHANGED <<commVars, rpc, dpc, atConnect, command_id_counter>>
    /\ UNCHANGED <<response_callbacks, message_queue, event_callbacks, buffer, extracted,
                   dmsg, didx, dispatched, delivered, localVars, result, lineVars,
                   done, waitingAtDisconnect, fanouts>>
    /\ UNCHANGED appVars

\* Lines 45-70: the port opens, the flags are set and the two threads start;
\* or serial.Serial raises and line 83 calls disconnect.
\* rpc and dpc are the positions of the threads started last: a thread of an
\* earlier connection that is still alive here is not followed further.
ConnectOpen(t, opens) ==
    /\ \/ pc[t] = "idle" /\ ~connected
       \/ pc[t] = "c_open"
    /\ ctx' = [ctx EXCEPT ![t] = "connect"]
    /\ IF opens
       THEN /\ serial_port' = "open"
            /\ connected' = TRUE
            /\ running' = TRUE
            /\ receive_thread' = "set"
            /\ process_thread' = "set"
            /\ rpc' = "run"
            /\ dpc' = "get"
            /\ pc' = [pc EXCEPT ![t] = "ping"]
            /\ atConnect' = [extracted |-> Len(extracted),
                             dispatched |-> Len(dispatched)]
       ELSE /\ pc' = [pc EXCEPT ![t] = "d_stop"]
            /\ UNCHANGED <<commVars, rpc, dpc, atConnect>>
    /\ UNCHANGED <<tableVars, message_queue, event_callbacks, buffer, extracted,
                   dmsg, didx, dispatched, delivered, localVars, result, lineVars,
                   done, waitingAtDisconnect, fanouts>>
    /\ UNCHANGED appVars

\* Line 73: response = self.send_command("system", "ping", {}).
ConnectPing(t) ==
    /\ pc[t] = "ping"
    /\ Enter(t)
    /\ UNCHANGED <<commVars, tableVars, message_queue, event_callbacks, readerVars,
                   dispVars, ctx, result, lineVars, waitingAtDisconnect, fanouts>>
    /\ UNCHANGED <<atConnect, appVars>>

\* Line 74: response and response.get("data", {}).get("status") == "ok".
ping_ok(r) == r.isdict /\ r.status = "ok"

\* Lines 74-79 (and 81-84 when send_command raised).
ConnectCheck(t) ==
    /\ pc[t] = "c_check"
    /\ IF ping_ok(ret[t])
       THEN /\ pc' = [pc EXCEPT ![t] = "idle"]
            /\ ctx' = [ctx EXCEPT ![t] = "none"]
            /\ result' = [result EXCEPT ![t] = PyTrue]
       ELSE /\ pc' = [pc EXCEPT ![t] = "d_stop"]
            /\ UNCHANGED <<ctx, result>>
    /\ ret' = [ret EXCEPT ![t] = PyNone]
    /\ UNCHANGED <<commVars, tableVars, message_queue, event_callbacks, readerVars,
                   dispVars, cmd_id, tmp, response, response_event, how, ncall, preceding,
                   lineVars, done, waitingAtDisconnect, fanouts>>
    /\ UNCHANGED <<atConnect, appVars>>

\* Lines 111-113: is_connected().
is_connected == connected

\* Lines 91 and 96: is_alive() of the two threads.
ReaderAlive == rpc = "run"
ProcessAlive == dpc \notin {"none", "stopped"}

-----------------------------------------------------------------------------
(* disconnect, lines 86-109 *)

\* The send_command calls blocked in response_event.wait().
Waiting == {CurCall(t) : t \in {u \in Threads : pc[u] = "wait" /\ ~response_event[u]}}

\* Line 88: self.running = False.
stop_running(t) ==
    /\ running' = FALSE
    /\ waitingAtDisconnect' = Waiting
    /\ pc' = [pc EXCEPT ![t] = "d_join_r"]
    /\ UNCHANGED <<serial_port, connected, receive_thread, process_thread, tableVars,
                   message_queue, event_callbacks, readerVars, dispVars, ctx,
                   localVars, result, lineVars, done, fanouts>>
    /\ UNCHANGED <<atConnect, appVars>>

\* A thread calls disconnect.
Disconnect(t) ==
    /\ pc[t] = "idle"
    /\ stop_running(t)

\* disconnect called by connect (lines 48, 78, 83).
DisconnectInConnect(t) ==
    /\ pc[t] = "d_stop"
    /\ stop_running(t)

\* Lines 90-93: join the reader for at most 1.0 s, then drop the reference.
\* The step is taken when the reader has stopped, or when the join times out.
JoinReader(t) ==
    /\ pc[t] = "d_join_r"
    /\ receive_thread' = "none"
    /\ pc' = [pc EXCEPT ![t] = "d_join_p"]
    /\ UNCHANGED <<serial_port, connected, running, process_thread, tableVars,
                   message_queue, event_callbacks, readerVars, dispVars, ctx,
                   localVars, result, lineVars, done, waitingAtDisconnect, fanouts>>
    /\ UNCHANGED <<atConnect, appVars>>

\* Lines 95-98: the same for the dispatch thread.
JoinProcess(t) ==
    /\ pc[t] = "d_join_p"
    /\ process_thread' = "none"
    /\ pc' = [pc EXCEPT ![t] = "d_close"]
    /\ UNCHANGED <<serial_port, connected, running, receive_thread, tableVars,
                   message_queue, event_callbacks, readerVars, dispVars, ctx,
                   localVars, result, lineVars, done, waitingAtDisconnect, fanouts>>
    /\ UNCHANGED <<atConnect, appVars>>

\* A disconnect that closes the port although it reports success.
Close_keeps_connected(t) ==
    /\ pc[t] = "d_close"
    /\ serial_port' = "none"
    /\ pc' = [pc EXCEPT ![t] = IF ctx[t] = "reconnect" THEN "c_open" ELSE "idle"]
    /\ ctx' = [ctx EXCEPT ![t] = IF ctx[t] = "reconnect" THEN "connect" ELSE "none"]
    /\ result' = [result EXCEPT ![t] = CASE ctx[t] = "reconnect" -> @
                                          [] ctx[t] = "connect" -> PyFalse
                                          [] OTHER -> PyTrue]
    /\ UNCHANGED <<connected, running, receive_thread, process_thread, tableVars,
                   message_queue, event_callbacks, readerVars, dispVars, localVars,
                   lineVars, done, waitingAtDisconnect, fanouts>>
    /\ UNCHANGED <<atConnect, appVars>>

\* Lines 100-109: close the port, clear it, connected = False, return True
\* (connect then returns False, lines 79 and 84, or goes on to line 51 when
\* it called disconnect at line 48).
Close(t) ==
    /\ pc[t] = "d_close"
    /\ serial_port' = "none"
    /\ connected' = FALSE
    /\ pc' = [pc EXCEPT ![t] = IF ctx[t] = "reconnect" THEN "c_open" ELSE "idle"]
    /\ ctx' = [ctx EXCEPT ![t] = IF ctx[t] = "reconnect" THEN "connect" ELSE "none"]
    /\ result' = [result EXCEPT ![t] = CASE ctx[t] = "reconnect" -> @
                                          [] ctx[t] = "connect" -> PyFalse
                                          [] OTHER -> PyTrue]
    /\ UNCHANGED <<running, receive_thread, process_thread, tableVars, message_queue,
                   event_callbacks, readerVars, dispVars, localVars, lineVars, done,
                   waitingAtDisconnect, fanouts>>
    /\ UNCHANGED <<atConnect, appVars>>

-----------------------------------------------------------------------------
(* register_event_callback and unregister_event_callback, lines 177-185 *)

seq_contains(l, x) == \E i \in 1..Len(l) : l[i] = x

\* list.remove(x): drop the first occurrence of x.
RECURSIVE list_remove(_, _)
list_remove(l, x) ==
    IF l = << >> THEN << >>
    ELSE IF Head(l) = x THEN Tail(l)
    ELSE << Head(l) >> \o list_remove(Tail(l), x)

\* A register without the test of line 179.
register_unchecked(l, cb) == Append(l, cb)

register_event_callback(l, cb) == IF ~seq_contains(l, cb) THEN Append(l, cb) ELSE l
unregister_event_callback(l, cb) == IF seq_contains(l, cb) THEN list_remove(l, cb) ELSE l

Register_event(t, cb) ==
    /\ pc[t] = "idle"
    /\ event_callbacks' = register_event_callback(event_callbacks, cb)
    /\ UNCHANGED <<commVars, tableVars, message_queue, readerVars, dispVars, pc, ctx,
                   localVars, result, lineVars, done, waitingAtDisconnect, fanouts>>
    /\ UNCHANGED <<atConnect, appVars>>

\* Lines 182-185.  A subscriber removed while a fan-out runs is noted in it.
Unregister_event(t, cb) ==
    /\ pc[t] = "idle"
    /\ event_callbacks' = unregister_event_callback(event_callbacks, cb)
    /\ fanouts' = IF /\ fanouts # << >>
                    /\ fanouts[Len(fanouts)].open
                    /\ seq_contains(event_callbacks, cb)
                 THEN [fanouts EXCEPT ![Len(fanouts)].removed = @ \cup {cb}]
                 ELSE fanouts
    /\ UNCHANGED <<commVars, tableVars, message_queue, readerVars, dispVars, pc, ctx,
                   localVars, result, lineVars, done, waitingAtDisconnect>>
    /\ UNCHANGED <<atConnect, appVars>>

-----------------------------------------------------------------------------
(* The device and the serial line *)

\* The commands whose frame went out whole: head directly followed by tail.
Frames == {i \in 1..(Len(wire) - 1) :
             /\ wire[i].part = "head"
             /\ wire[i + 1].part = "tail"
             /\ wire[i + 1].call = wire[i].call}

\* The text of a response to the command of chunk c.
response_line(c, st) == dumps(Msg("resp", c.id, c.call, st)) \o << NL >>

\* The device answers a command it received whole, once.
DeviceRespond(st) ==
    /\ serial_port = "open"
    /\ \E i \in Frames :
         /\ wire[i].call \notin answered
         /\ answered' = answered \cup {wire[i].call}
         /\ rx' = rx \o response_line(wire[i], st)
    /\ UNCHANGED <<commVars, tableVars, message_queue, event_callbacks, readerVars,
                   dispVars, pc, ctx, localVars, result, wire, nlines, done,
                   waitingAtDisconnect, fanouts>>
    /\ UNCHANGED <<atConnect, appVars>>

\* The device sends a line of its own.
DeviceSend(line) ==
    /\ serial_port = "open"
    /\ nlines < MaxLines
    /\ nlines' = nlines + 1
    /\ rx' = rx \o line \o << NL >>
    /\ UNCHANGED <<commVars, tableVars, message_queue, event_callbacks, readerVars,
                   dispVars, pc, ctx, localVars, result, wire, answered, done,
                   waitingAtDisconnect, fanouts>>
    /\ UNCHANGED <<atConnect, appVars>>

-----------------------------------------------------------------------------
(* _receive_thread, lines 187-224 *)

\* One turn of the loop of line 191 that reads n bytes (lines 193-215).
Receive(n) ==
    /\ rpc = "run"
    /\ running /\ connected
    /\ serial_port = "open"
    /\ n \in 1..Len(rx)
    /\ LET f == frame(buffer \o decode(SubSeq(rx, 1, n)), << >>) IN
         /\ buffer' = f.buffer
         /\ message_queue' = put_all(message_queue, f.out)
         /\ extracted' = extracted \o f.out
    /\ rx' = SubSeq(rx, n + 1, Len(rx))
    /\ UNCHANGED <<commVars, tableVars, event_callbacks, rpc, dispVars, pc, ctx,
                   localVars, result, wire, answered, nlines, done,
                   waitingAtDisconnect, fanouts>>
    /\ UNCHANGED <<atConnect, appVars>>

\* A reader that a read error ends.
after_read_error_exit == "stopped"

\* Lines 220-222: an exception raised in the loop (serial_port.read fails) is
\* caught and logged, and after 0.1 s the loop goes on.
after_read_error == "run"

\* Line 195 raises: nothing was read.
ReceiveError ==
    /\ rpc = "run"
    /\ running /\ connected
    /\ serial_port = "open"
    /\ rpc' = after_read_error
    /\ UNCHANGED <<commVars, tableVars, message_queue, event_callbacks, buffer,
                   extracted, dispVars, pc, ctx, localVars, result, lineVars, done,
                   waitingAtDisconnect, fanouts>>
    /\ UNCHANGED <<atConnect, appVars>>

\* Line 191 is false: the thread ends.
ReceiveExit ==
    /\ rpc = "run"
    /\ ~(running /\ connected)
    /\ rpc' = "stopped"
    /\ UNCHANGED <<commVars, tableVars, message_queue, event_callbacks, buffer,
                   extracted, dispVars, pc, ctx, localVars, result, lineVars, done,
                   waitingAtDisconnect, fanouts>>
    /\ UNCHANGED <<atConnect, appVars>>

-----------------------------------------------------------------------------
(* _process_thread, lines 226-261 *)

\* A dispatcher that hands a response nobody waits for to the subscribers.
route_unmatched_as_event(m, table) ==
    IF ~m.isdict THEN "get"
    ELSE IF m.type = "resp" /\ m.id \in DOMAIN table THEN "fetch"
    ELSE IF m.type \in {"event", "resp"} THEN "fanout"
    ELSE "get"

\* A dispatcher that treats an event as a message of unknown type.
route_without_events(m, table) ==
    IF ~m.isdict THEN "get"
    ELSE IF m.type = "resp" /\ m.id \in DOMAIN table THEN "fetch"
    ELSE "get"

\* Lines 239-247: where the message goes.  message.get raises on a value that
\* is no dict; line 258 catches it.
route(m, table) ==
    IF ~m.isdict THEN "get"
    ELSE IF m.type = "resp" /\ m.id \in DOMAIN table THEN "fetch"
    ELSE IF m.type = "event" THEN "fanout"
    ELSE "get"

\* Lines 230-247: message = self.message_queue.get(timeout=0.1), and the test
\* that routes it.
ProcessGet ==
    /\ dpc = "get"
    /\ running
    /\ message_queue # << >>
    /\ LET i == get_index(message_queue)
           m == message_queue[i]
       IN /\ dispatched' = Append(dispatched, m)
          /\ message_queue' = SubSeq(message_queue, 1, i - 1)
                              \o SubSeq(message_queue, i + 1, Len(message_queue))
          /\ dpc' = route(m, response_callbacks)
          /\ dmsg' = IF route(m, response_callbacks) = "get" THEN PyNone ELSE m
          /\ didx' = IF route(m, response_callbacks) = "fanout" THEN 1 ELSE 0
          /\ fanouts' = IF route(m, response_callbacks) = "fanout"
                        THEN Append(fanouts, [msg |-> m, start |-> event_callbacks,
                                              removed |-> {}, end |-> << >>,
                                              open |-> TRUE])
                        ELSE fanouts
    /\ UNCHANGED <<commVars, tableVars, event_callbacks, readerVars, delivered,
                   pc, ctx, localVars, result, lineVars, done, waitingAtDisconnect>>
    /\ UNCHANGED <<atConnect, appVars>>

\* Correlation by position: the oldest pending closure, whatever the id.
callback_for_oldest(m, table) ==
    table[CHOOSE k \in DOMAIN table : \A j \in DOMAIN table : k <= j]

\* The closure the dispatcher calls for message m.
callback_for(m, table) == table[m.id]

\* Lines 244-245: callback = self.response_callbacks[message_id]; callback(message).
\* The closure (lines 148-150) fills the slot and sets the event of its call.
\* KeyError (the entry has gone since line 242) is caught at line 258.
ProcessFetch ==
    /\ dpc = "fetch"
    /\ dpc' = "get"
    /\ dmsg' = PyNone
    /\ IF dmsg.id \in DOMAIN response_callbacks
       THEN LET c == callback_for(dmsg, response_callbacks) IN
            IF ncall[c[1]] = c[2]
            THEN /\ response' = [response EXCEPT ![c[1]] = dmsg]
                 /\ response_event' = [response_event EXCEPT ![c[1]] = TRUE]
            ELSE UNCHANGED <<response, response_event>>
       ELSE UNCHANGED <<response, response_event>>
    /\ UNCHANGED <<commVars, tableVars, message_queue, event_callbacks, readerVars,
                   didx, dispatched, delivered, pc, ctx, cmd_id, tmp, ret, how,
                   ncall, preceding, result, lineVars, done, waitingAtDisconnect, fanouts>>
    /\ UNCHANGED <<atConnect, appVars>>

\* The try of lines 250-253 put around the loop instead of inside it: a
\* callback that raises ends the loop.
after_callback_abort(l, i, raised) == IF raised THEN Len(l) + 1 ELSE i + 1

\* Lines 249-253: the position of the iterator of `for callback in
\* self.event_callbacks` after the callback at position i returned, or raised
\* and was caught inside the loop.
after_callback(l, i, raised) == i + 1

\* Lines 249-253: one turn of `for callback in self.event_callbacks`, the list
\* iterator being an index into the list; past the end the loop is over.
ProcessFanout(raises) ==
    /\ dpc = "fanout"
    /\ didx <= Len(event_callbacks)
    /\ delivered' = Append(delivered, <<event_callbacks[didx], dmsg, raises>>)
    /\ didx' = after_callback(event_callbacks, didx, raises)
    /\ UNCHANGED <<commVars, tableVars, message_queue, event_callbacks, readerVars,
                   dpc, dmsg, dispatched, pc, ctx, localVars, result, lineVars, done,
                   waitingAtDisconnect, fanouts>>
    /\ UNCHANGED <<atConnect, appVars>>

ProcessFanoutEnd ==
    /\ dpc = "fanout"
    /\ didx > Len(event_callbacks)
    /\ dpc' = "get"
    /\ dmsg' = PyNone
    /\ didx' = 0
    /\ fanouts' = [fanouts EXCEPT ![Len(fanouts)] =
                      [msg |-> @.msg, start |-> << >>, removed |-> {},
                       end |-> event_callbacks, open |-> FALSE]]
    /\ UNCHANGED <<commVars, tableVars, message_queue, event_callbacks, readerVars,
                   dispatched, delivered, pc, ctx, localVars, result,
                   lineVars, done, waitingAtDisconnect>>
    /\ UNCHANGED <<atConnect, appVars>>

\* Line 251: the subscriber at the iterator's position is called and calls
\* send_command, on the dispatch thread.
CallbackSend ==
    /\ dpc = "fanout"
    /\ didx <= Len(event_callbacks)
    /\ pc["dispatch"] = "idle"
    /\ ncall["dispatch"] < MaxWorkerCalls
    /\ dpc' = "callback"
    /\ ctx' = [ctx EXCEPT !["dispatch"] = "callback"]
    /\ Enter("dispatch")
    /\ UNCHANGED <<commVars, tableVars, message_queue, event_callbacks, readerVars,
                   dmsg, didx, dispatched, delivered, result, lineVars,
                   waitingAtDisconnect, fanouts>>
    /\ UNCHANGED <<atConnect, appVars>>

\* Lines 251-253: send_command has returned to the subscriber, which returns
\* (or lets the exception of send_command through to line 252), and the
\* loop goes on.
CallbackReturn ==
    /\ dpc = "callback"
    /\ pc["dispatch"] = "f_return"
    /\ result' = [result EXCEPT !["dispatch"] = ret["dispatch"]]
    /\ delivered' = Append(delivered, <<event_callbacks[didx], dmsg,
                                        ret["dispatch"] = KeyErrorRaised>>)
    /\ didx' = after_callback(event_callbacks, didx, ret["dispatch"] = KeyErrorRaised)
    /\ dpc' = "fanout"
    /\ ret' = [ret EXCEPT !["dispatch"] = PyNone]
    /\ ctx' = [ctx EXCEPT !["dispatch"] = "none"]
    /\ pc' = [pc EXCEPT !["dispatch"] = "idle"]
    /\ UNCHANGED <<commVars, tableVars, message_queue, event_callbacks, readerVars,
                   dmsg, dispatched, cmd_id, tmp, response, response_event, how, ncall,
                   preceding, lineVars, done, waitingAtDisconnect, fanouts>>
    /\ UNCHANGED <<atConnect, appVars>>

\* Line 230 is false: the thread ends.
ProcessExit ==
    /\ dpc = "get"
    /\ ~running
    /\ dpc' = "stopped"
    /\ UNCHANGED <<commVars, tableVars, message_queue, event_callbacks, readerVars,
                   dmsg, didx, dispatched, delivered, pc, ctx, localVars, result,
                   lineVars, done, waitingAtDisconnect, fanouts>>
    /\ UNCHANGED <<atConnect, appVars>>

-----------------------------------------------------------------------------
(* Specifications *)

\* The state after the UI thread's connect() on a new communicator returned
\* True: the port is open, both threads run, and the ping "cmd-1" was answered.

InitConnected ==
    /\ serial_port = "open"
    /\ connected = TRUE
    /\ running = TRUE
    /\ message_queue = << >>
    /\ event_callbacks = << >>
    /\ response_callbacks = << >>
    /\ command_id_counter = 2
    /\ receive_thread = "set"
    /\ process_thread = "set"
    /\ buffer = << >>
    /\ rpc = "run"
    /\ dpc = "get"
    /\ dmsg = PyNone
    /\ didx = 0
    /\ pc = [t \in Contexts |-> "idle"]
    /\ ctx = [t \in Contexts |-> "none"]
    /\ cmd_id = [t \in Contexts |-> 0]
    /\ tmp = [t \in Contexts |-> 0]
    /\ response = [t \in Contexts |-> PyNone]
    /\ response_event = [t \in Contexts |-> FALSE]
    /\ ret = [t \in Contexts |-> PyNone]
    /\ how = [t \in Contexts |-> ""]
    /\ ncall = [t \in Contexts |-> IF t = "main" THEN 1 ELSE 0]
    /\ preceding = [t \in Contexts |-> {}]
    /\ result = [t \in Contexts |-> IF t = "main" THEN PyTrue ELSE PyNone]
    /\ wire = << [call |-> PingCall, id |-> 1, part |-> "head"],
                 [call |-> PingCall, id |-> 1, part |-> "tail"] >>
    /\ rx = << >>
    /\ answered = {PingCall}
    /\ nlines = 0
    /\ done = {[call |-> PingCall, id |-> 1, ret |-> PingResponse, how |-> "response",
                 after |-> {}]}
    /\ extracted = << PingResponse >>
    /\ dispatched = << PingResponse >>
    /\ delivered = << >>
    /\ waitingAtDisconnect = {}
    /\ fanouts = << >>
    /\ atConnect = [extracted |-> 0, dispatched |-> 0]
    /\ AppInit

\* The steps of send_command by thread t.
SendCommandStep(t) ==
    \/ Alloc(t) \/ Load(t) \/ Store(t) \/ Register(t)
    \/ WriteBegin(t) \/ WriteEnd(t) \/ WriteFail(t)
    \/ WaitReturn(t) \/ Timeout(t)
    \/ FinallyCheck(t) \/ FinallyDel(t)

\* The steps of connect (on a fresh communicator) and of disconnect by thread t.
ConnectStep(t) ==
    \/ command_id_counter = 1 /\ \E opens \in BOOLEAN : ConnectOpen(t, opens)
    \/ ConnectPing(t)
    \/ ConnectCheck(t)
    \/ DisconnectInConnect(t)

\* The dispatch thread's handling of responses.
ProcessStep == ProcessGet \/ ProcessFetch \/ ProcessExit

\* The connection: the UI thread connects a new communicator, the device may
\* answer the ping, and a failed connect disconnects; the UI thread calls
\* disconnect whenever it likes, before the connect and any number of times.
NextConnect ==
    \/ ConnectStep("main")
    \/ Disconnect("main")
    \/ JoinReader("main") \/ JoinProcess("main") \/ Close("main")
    \/ SendCommandStep("main")
    \/ \E st \in {"ok", "error"} : DeviceRespond(st)
    \/ Receive(Len(rx))
    \/ ReceiveExit
    \/ ProcessStep

SpecConnect == Init /\ [][NextConnect]_vars

\* The command channel of a connected communicator: both threads send
\* commands, the device answers them, the reader reads what has arrived.
NextCmd ==
    \/ \E t \in Threads : Calls < MaxCalls /\ SendCommand(t)
    \/ \E t \in Threads : SendCommandStep(t)
    \/ DeviceRespond("ok")
    \/ Receive(Len(rx))
    \/ ProcessGet
    \/ ProcessFetch

SpecCmd == InitConnected /\ [][NextCmd]_vars

\* The command channel before any deadline expires, the threads being
\* scheduled fairly: the reader and the dispatcher take what is there to take,
\* and a caller whose wait is over runs on to its return.
NextLive ==
    \/ \E t \in Threads : Calls < MaxCalls /\ SendCommand(t)
    \/ \E t \in Threads :
          \/ Alloc(t) \/ Load(t) \/ Store(t) \/ Register(t)
          \/ WriteBegin(t) \/ WriteEnd(t) \/ WriteFail(t)
          \/ WaitReturn(t) \/ FinallyCheck(t) \/ FinallyDel(t)
    \/ DeviceRespond("ok")
    \/ Receive(Len(rx))
    \/ ProcessGet
    \/ ProcessFetch

FairLive ==
    /\ WF_vars(Receive(Len(rx)))
    /\ WF_vars(ProcessGet)
    /\ WF_vars(ProcessFetch)
    /\ \A t \in Threads : WF_vars(WaitReturn(t) \/ FinallyCheck(t) \/ FinallyDel(t))

SpecLive == InitConnected /\ [][NextLive]_vars /\ FairLive

\* The command channel while the worker is slow: the UI thread makes its
\* calls one after the other; the worker calls send_command at any time and,
\* in the window observed, is scheduled as far as line 132.
NextLate ==
    \/ ApiCalls("main") < MaxMainCalls /\ SendCommand("main")
    \/ ApiCalls("worker") < MaxWorkerCalls /\ SendCommand("worker")
    \/ SendCommandStep("main")
    \/ Alloc("worker") \/ Load("worker") \/ Store("worker")
    \/ DeviceRespond("ok")
    \/ Receive(Len(rx))
    \/ ProcessGet
    \/ ProcessFetch

SpecLate == InitConnected /\ [][NextLate]_vars

\* The command channel with the UI thread calling disconnect.
NextDisc ==
    \/ NextCmd
    \/ Disconnect("main")
    \/ JoinReader("main") \/ JoinProcess("main") \/ Close("main")
    \/ ReceiveExit
    \/ ProcessExit

SpecDisc == InitConnected /\ [][NextDisc]_vars

\* The UI thread disconnects, any number of times, while the worker sends
\* commands, before, during and after the disconnect.
NextClose ==
    \/ Calls < MaxCalls /\ SendCommand("worker")
    \/ SendCommandStep("worker")
    \/ DeviceRespond("ok")
    \/ Receive(Len(rx))
    \/ ProcessStep
    \/ ReceiveExit
    \/ Disconnect("main")
    \/ JoinReader("main") \/ JoinProcess("main") \/ Close("main")

SpecClose == InitConnected /\ [][NextClose]_vars

\* The lines the device may send as its k-th unsolicited line: an event, an
\* event padded with blanks, a response to no command, a message of another
\* type, a number, a truncated object, an invalid byte, a blank line.
Event(k) == Msg("event", 0, <<"device", k>>, "")
DeviceLines(k) ==
    { dumps(Event(k)),
      << SP >> \o dumps(Event(k)) \o << SP >>,
      dumps(Msg("resp", 99, NoCall, "ok")),
      dumps(Msg("cmd", 0, NoCall, "")),
      << DIGIT >>,
      << LB, <<"o", Event(k)>> >>,
      << BADBYTE >>,
      << SP >> }

\* The receive pipeline of a connected communicator: the device sends lines,
\* the reader reads them in pieces of any size, the dispatcher fans events
\* out to the subscribers, which the UI thread registers.
NextPipe ==
    \/ \E line \in DeviceLines(nlines + 1) : DeviceSend(line)
    \/ \E n \in 1..Len(rx) : Receive(n)
    \/ ProcessGet
    \/ \E raises \in BOOLEAN : ProcessFanout(raises)
    \/ ProcessFanoutEnd
    \/ \E cb \in Subscribers : Register_event("main", cb)

SpecPipe == InitConnected /\ [][NextPipe]_vars

\* The receive pipeline until the UI thread disconnects: the device sends any
\* of its lines, reads may fail, subscribers may raise.
NextResilient ==
    \/ \E line \in DeviceLines(nlines + 1) : DeviceSend(line)
    \/ Receive(Len(rx))
    \/ ReceiveError
    \/ ReceiveExit
    \/ ProcessGet
    \/ \E raises \in BOOLEAN : ProcessFanout(raises)
    \/ ProcessFanoutEnd
    \/ ProcessExit
    \/ Register_event("main", "s1")
    \/ Disconnect("main")
    \/ JoinReader("main") \/ JoinProcess("main") \/ Close("main")

SpecResilient == InitConnected /\ [][NextResilient]_vars

\* The subscriber list: the device sends events, the reader reads what has
\* arrived, the dispatcher fans the events out, and the UI thread registers
\* and unregisters subscribers at any time.
NextSubs ==
    \/ nlines < MaxEvents /\ DeviceSend(dumps(Event(nlines + 1)))
    \/ Receive(Len(rx))
    \/ ProcessGet
    \/ ProcessFanout(FALSE)
    \/ ProcessFanoutEnd
    \/ \E cb \in Subscribers : Register_event("main", cb)
    \/ \E cb \in Subscribers : Unregister_event("main", cb)

SpecSubs == InitConnected /\ [][NextSubs]_vars

\* The connects of thread t that opened the port: each sent one ping.
Connects(t) == ncall[t]

\* Connections one after the other: the UI thread connects, disconnects and
\* connects again; the device answers the pings and sends events, which
\* arrive in pieces of any size.
NextReconnect ==
    \/ /\ Connects("main") < MaxConnects
       /\ \E opens \in BOOLEAN : ConnectOpen("main", opens)
    \/ ConnectPing("main")
    \/ ConnectCheck("main")
    \/ DisconnectInConnect("main")
    \/ Disconnect("main")
    \/ JoinReader("main") \/ JoinProcess("main") \/ Close("main")
    \/ SendCommandStep("main")
    \/ \E st \in {"ok", "error"} : DeviceRespond(st)
    \/ nlines < MaxEvents /\ DeviceSend(dumps(Event(nlines + 1)))
    \/ \E n \in 1..Len(rx) : Receive(n)
    \/ ReceiveExit
    \/ ProcessStep
    \/ ProcessFanoutEnd

SpecReconnect == Init /\ [][NextReconnect]_vars

\* Sequential use: one thread connects, sends commands, disconnects and
\* connects again, each call after the other has returned; the device answers
\* when it likes, also after the connection the command was sent in.
NextSequential ==
    \/ ncall["main"] < MaxCalls + 1 /\ ConnectOpen("main", TRUE)
    \/ ConnectPing("main")
    \/ ConnectCheck("main")
    \/ DisconnectInConnect("main")
    \/ Disconnect("main")
    \/ JoinReader("main") \/ JoinProcess("main") \/ Close("main")
    \/ ncall["main"] < MaxCalls + 1 /\ SendCommand("main")
    \/ SendCommandStep("main")
    \/ DeviceRespond("ok")
    \/ Receive(Len(rx))
    \/ ReceiveExit
    \/ ProcessStep

SpecSequential == Init /\ [][NextSequential]_vars

\* Connecting again: the UI thread calls connect on the communicator while
\* it is connected; the port may fail to open and the ping may fail, and
\* the thread then connects once more.  The device answers and sends events.
NextAgain ==
    \/ ncall["main"] < MaxConnects /\ ConnectAgain("main")
    \/ ncall["main"] < MaxConnects /\ \E opens \in BOOLEAN : ConnectOpen("main", opens)
    \/ ConnectPing("main")
    \/ ConnectCheck("main")
    \/ DisconnectInConnect("main")
    \/ JoinReader("main") \/ JoinProcess("main") \/ Close("main")
    \/ SendCommandStep("main")
    \/ \E st \in {"ok", "error"} : DeviceRespond(st)
    \/ nlines < MaxEvents /\ DeviceSend(dumps(Event(nlines + 1)))
    \/ Receive(Len(rx))
    \/ ReceiveExit
    \/ ProcessStep
    \/ ProcessFanoutEnd

SpecAgain == InitConnected /\ [][NextAgain]_vars

\* A subscriber that sends: the UI thread registers a subscriber, the device
\* sends events, and the subscriber calls send_command when it is invoked;
\* the writes of that call succeed.  The UI thread sends a command of its
\* own meanwhile.
NextCallback ==
    \/ Register_event("main", "s1")
    \/ nlines < MaxEvents /\ DeviceSend(dumps(Event(nlines + 1)))
    \/ DeviceRespond("ok")
    \/ Receive(Len(rx))
    \/ ProcessGet
    \/ ProcessFetch
    \/ CallbackSend
    \/ Alloc("dispatch") \/ Load("dispatch") \/ Store("dispatch") \/ Register("dispatch")
    \/ WriteBegin("dispatch") \/ WriteEnd("dispatch")
    \/ WaitReturn("dispatch") \/ Timeout("dispatch")
    \/ FinallyCheck("dispatch") \/ FinallyDel("dispatch")
    \/ CallbackReturn
    \/ ProcessFanout(FALSE)
    \/ ProcessFanoutEnd
    \/ ApiCalls("main") < MaxWorkerCalls /\ SendCommand("main")
    \/ SendCommandStep("main")

SpecCallback == InitConnected /\ [][NextCallback]_vars

\* Responses nobody waits for: the UI thread sends commands (every write
\* succeeds), which may time out before the device answers; the device also sends events and responses
\* to no command; the worker registers a subscriber.
StrayResponse == Msg("resp", 99, NoCall, "ok")
NextStray ==
    \/ Calls < MaxCalls /\ SendCommand("main")
    \/ Alloc("main") \/ Load("main") \/ Store("main") \/ Register("main")
    \/ WriteBegin("main") \/ WriteEnd("main")
    \/ WaitReturn("main") \/ Timeout("main")
    \/ FinallyCheck("main") \/ FinallyDel("main")
    \/ DeviceRespond("ok")
    \/ /\ nlines < MaxEvents
       /\ \E m \in {StrayResponse, Event(nlines + 1)} : DeviceSend(dumps(m))
    \/ Receive(Len(rx))
    \/ ProcessGet
    \/ ProcessFetch
    \/ ProcessFanout(FALSE)
    \/ ProcessFanoutEnd
    \/ Register_event("worker", "s1")

SpecStray == InitConnected /\ [][NextStray]_vars

-----------------------------------------------------------------------------
(* The facade operations, lines 265-371 *)

\* Lines 271 and 279 (and 341, 371):
\*   return response and response.get("data", {}).get("status") == "ok"
\* Python's "x and y" is x itself when x is falsy, and y otherwise; None is
\* falsy, a response (a dict with a type and an id) is not.
bool_facade(r) ==
    IF ~r.isdict THEN r
    ELSE IF r.status = "ok" THEN PyTrue ELSE PyFalse

\* A Python value for the field of data a query returns with .get(field).
field_of(r) == IF r.result = "absent" THEN PyNone ELSE PyList(r.result)
\* The same with .get("active_alarms", []), line 332.
field_or_empty(r) == IF r.result = "absent" THEN PyList("empty") ELSE PyList(r.result)

\* A query that returns the field of any response, whatever its status.
query_facade_any_status(f, r) ==
    IF r.isdict
    THEN IF f = "get_alarm_status" THEN field_or_empty(r) ELSE field_of(r)
    ELSE PyNone

\* Lines 287-289, 297-299 (and 309-311, 319-321), and 331-333 for
\* get_alarm_status:
\*   if response and response.get("data", {}).get("status") == "ok":
\*       return response.get("data", {}).get(field)
\*   return None
query_facade(f, r) ==
    IF r.isdict /\ r.status = "ok"
    THEN IF f = "get_alarm_status" THEN field_or_empty(r) ELSE field_of(r)
    ELSE PyNone

BoolFacades == {"set_light_intensity", "set_all_light_intensities"}
QueryFacades == {"get_all_light_intensities", "get_alarm_status"}
Facades == BoolFacades \cup QueryFacades

\* The facade calls that have called send_command and seen it return.
FacadeCalls == Cardinality({d \in done : d.call # PingCall})

\* Lines 267-270, 275-278, 293-296, 327-330: facade f calls send_command.
FacadeCall(t, f) ==
    /\ pc[t] = "idle"
    /\ FacadeCalls < MaxCalls
    /\ ctx' = [ctx EXCEPT ![t] = f]
    /\ Enter(t)
    /\ UNCHANGED <<commVars, tableVars, message_queue, event_callbacks, readerVars,
                   dispVars, result, lineVars, waitingAtDisconnect, fanouts>>
    /\ UNCHANGED <<atConnect, appVars>>

\* Lines 271, 279, 297-299, 331-333: the facade returns; an exception of
\* send_command passes through it.
FacadeReturn(t) ==
    /\ pc[t] = "f_return"
    /\ ctx[t] \in Facades
    /\ result' = [result EXCEPT ![t] =
                     IF ret[t] = KeyErrorRaised THEN ret[t]
                     ELSE IF ctx[t] \in BoolFacades THEN bool_facade(ret[t])
                     ELSE query_facade(ctx[t], ret[t])]
    /\ ret' = [ret EXCEPT ![t] = PyNone]
    /\ ctx' = [ctx EXCEPT ![t] = "none"]
    /\ pc' = [pc EXCEPT ![t] = "idle"]
    /\ UNCHANGED <<commVars, tableVars, message_queue, event_callbacks, readerVars,
                   dispVars, cmd_id, tmp, response, response_event, how, ncall,
                   preceding, lineVars, done, waitingAtDisconnect, fanouts>>
    /\ UNCHANGED <<atConnect, appVars>>

\* The device answers a command it received whole, once, with a status and
\* a result field.
DeviceReply(st, res) ==
    /\ serial_port = "open"
    /\ \E i \in Frames :
         /\ wire[i].call \notin answered
         /\ answered' = answered \cup {wire[i].call}
         /\ rx' = rx \o dumps(MsgWith("resp", wire[i].id, wire[i].call, st, res)) \o << NL >>
    /\ UNCHANGED <<commVars, tableVars, message_queue, event_callbacks, readerVars,
                   dispVars, pc, ctx, localVars, result, wire, nlines, done,
                   waitingAtDisconnect, fanouts>>
    /\ UNCHANGED <<atConnect, appVars>>

\* The answers of the device: success with a list, with an empty list, with
\* no result field; an error; data without a status.
Replies == { <<"ok", "items">>, <<"ok", "empty">>, <<"ok", "absent">>,
             <<"error", "items">>, <<"", "absent">> }

\* The UI thread calls facade operations one after the other and then
\* disconnects; the device answers or not.
NextFacade ==
    \/ \E f \in Facades : FacadeCall("main", f)
    \/ SendCommandStep("main")
    \/ FacadeReturn("main")
    \/ \E a \in Replies : DeviceReply(a[1], a[2])
    \/ Receive(Len(rx))
    \/ ProcessGet
    \/ ProcessFetch
    \/ Disconnect("main")
    \/ JoinReader("main") \/ JoinProcess("main") \/ Close("main")
    \/ ReceiveExit
    \/ ProcessExit

SpecFacade == InitConnected /\ [][NextFacade]_vars

-----------------------------------------------------------------------------
(* The application, src/app.py: handle_event (lines 116-160), the subscriber *)
(* registered at line 310, runs on the dispatch thread; main (lines 1025-     *)
(* 1103) is the script, run again by Streamlit for every render cycle.       *)

\* The vars of the communicator, which the steps below leave alone.
libVars == <<serial_port, connected, running, message_queue, event_callbacks,
             response_callbacks, command_id_counter, receive_thread, process_thread,
             buffer, rpc, dpc, dmsg, didx, pc, ctx, cmd_id, tmp, response,
             response_event, ret, how, ncall, preceding, result, wire, rx, answered,
             nlines, done, extracted, dispatched, delivered, waitingAtDisconnect,
             fanouts, atConnect>>

\* The events the device sends: alarms triggered for light 1 or 2, an alarm
\* whose source names no light, and an event of another topic.
AlarmEvent(src, code, value) ==
    [type |-> "event", topic |-> "alarm", action |-> "triggered",
     source |-> src, code |-> code, value |-> value]
AppEvents ==
    {AlarmEvent(src, c[1], c[2]) :
        src \in {"light_1", "light_2"}, c \in {<<"over_current", 30>>, <<"over_temp", 90>>}}
    \cup {AlarmEvent("light_x", "over_temp", 90),
          [type |-> "event", topic |-> "status", action |-> "changed",
           source |-> "light_1", code |-> "", value |-> 0]}

\* Lines 184, 136: an alarm-trigger event.
is_trigger(e) == e.type = "event" /\ e.topic = "alarm" /\ e.action = "triggered"

\* Lines 191-201: the light id in the source "light_X"; 0 stands for None.
light_of(src) ==
    CASE src = "light_1" -> 1
      [] src = "light_2" -> 2
      [] OTHER -> 0

\* Lines 218-223: the record of a new alarm.
new_alarm(l, e, ts) == [light |-> l, code |-> e.code, value |-> e.value, timestamp |-> ts]

\* Lines 205-214: the position of the first record of light l, or 0.
RECURSIVE find_alarm(_, _, _)
find_alarm(status, l, i) ==
    IF i > Len(status) THEN 0
    ELSE IF status[i].light = l THEN i
    ELSE find_alarm(status, l, i + 1)

\* An application of an event that appends a record whatever the list holds.
apply_alarm_append(status, entry) ==
    IF is_trigger(entry.event) /\ light_of(entry.event.source) # 0
    THEN Append(status, new_alarm(light_of(entry.event.source), entry.event,
                                  entry.timestamp))
    ELSE status

\* Lines 183-226: the effect of one queued entry on alarm_status.
apply_alarm(status, entry) ==
    IF is_trigger(entry.event) /\ light_of(entry.event.source) # 0
    THEN LET l == light_of(entry.event.source)
             i == find_alarm(status, l, 1)
         IN IF i # 0
            THEN [status EXCEPT ![i] = new_alarm(l, entry.event, entry.timestamp)]
            ELSE Append(status, new_alarm(l, entry.event, entry.timestamp))
    ELSE status

\* The lists of active alarms the device reports: at most one per light.
DeviceAlarm(l) == [light |-> l, code |-> "over_temp", value |-> 90, timestamp |-> 0]
DeviceAlarmLists == { << >>, << DeviceAlarm(1) >>, << DeviceAlarm(2), DeviceAlarm(1) >> }

\* Python's None where a list of alarms is expected, written as a list that
\* holds this one mark, which no list of alarms does.
PyNoneList == << [light |-> 0, code |-> "None", value |-> 0, timestamp |-> 0] >>

\* What communicator.get_alarm_status returns (lines 325-333 of
\* serial_comm.py): the list of a successful response, or None.
AlarmQueryResults == DeviceAlarmLists \cup {PyNoneList}

\* A refresh that stores what the query returned as it is.
refresh_alarm_status_unchecked(q, raised) == IF raised THEN << >> ELSE q

\* Lines 357-375: the list refresh_alarm_status stores: the list the query
\* returned, [] when it returned None (361-362) or raised (371-374).
refresh_alarm_status(q, raised) ==
    IF raised THEN << >>
    ELSE IF q = PyNoneList THEN << >> ELSE q

\* Lines 358-374 as a step of the session: the query returns q, or raises.
RefreshAlarms(q, raised) ==
    /\ alarms' = IF raised THEN alarms ELSE q
    /\ alarm_status' = refresh_alarm_status(q, raised)

\* Lines 121-133: handle_event is called with event e; it evaluates
\* WiseledCommunicator.pending_events and builds the entry.  The timestamp
\* (datetime.now()) is modelled by the ordinal of the entry.
HandleEvent(e) ==
    /\ hpc = "idle"
    /\ Len(enqueued) < MaxEvents
    /\ href' = pending_events
    /\ hentry' = [timestamp |-> Len(enqueued) + 1, event |-> e]
    /\ hpc' = "append"
    /\ UNCHANGED <<libVars, session_connected, alarms,
                   lists, pending_events, alarm_refresh_needed, alarm_status,
                   event_log, upc, dref, dix, enqueued>>

\* Line 130: .append(entry), on the list evaluated before.
HandleAppend ==
    /\ hpc = "append"
    /\ lists' = [lists EXCEPT ![href] = Append(@, hentry)]
    /\ enqueued' = Append(enqueued, hentry)
    /\ hpc' = IF is_trigger(hentry.event) THEN "flag" ELSE "idle"
    /\ UNCHANGED <<libVars, session_connected, alarms,
                   pending_events, alarm_refresh_needed, alarm_status,
                   event_log, href, hentry, upc, dref, dix>>

\* Line 153: alarm_refresh_needed = True.
HandleFlag ==
    /\ hpc = "flag"
    /\ alarm_refresh_needed' = TRUE
    /\ hpc' = "idle"
    /\ UNCHANGED <<libVars, session_connected, alarms,
                   lists, pending_events, alarm_status, event_log, href,
                   hentry, upc, dref, dix, enqueued>>

\* The script runs made so far: each made two lists (lines 1039 and 173).
Cycles == (Len(lists) - 1) \div 2

\* Lines 1039-1040: a run of the script begins; pending_events = [] and
\* alarm_refresh_needed = False.
MainInit ==
    /\ upc = "idle"
    /\ Cycles < MaxCycles
    /\ lists' = Append(lists, << >>)
    /\ pending_events' = Len(lists) + 1
    /\ alarm_refresh_needed' = FALSE
    /\ upc' = "drain"
    /\ UNCHANGED <<libVars, session_connected, alarms,
                   alarm_status, event_log, hpc, href, hentry, dref, dix,
                   enqueued>>

\* Lines 1057, 168-172: pending_events = WiseledCommunicator.pending_events.
DrainLoad ==
    /\ upc = "drain"
    /\ dref' = pending_events
    /\ upc' = "swap"
    /\ UNCHANGED <<libVars, session_connected, alarms,
                   lists, pending_events, alarm_refresh_needed, alarm_status,
                   event_log, hpc, href, hentry, dix, enqueued>>

\* Line 173: WiseledCommunicator.pending_events = [].
DrainSwap ==
    /\ upc = "swap"
    /\ lists' = Append(lists, << >>)
    /\ pending_events' = Len(lists) + 1
    /\ dix' = 1
    /\ upc' = "apply"
    /\ UNCHANGED <<libVars, session_connected, alarms,
                   alarm_refresh_needed, alarm_status, event_log, hpc, href,
                   hentry, dref, enqueued>>

\* Lines 177-226: one turn of `for event_entry in pending_events`, the list
\* iterator being an index into the list.
DrainApply ==
    /\ upc = "apply"
    /\ dix <= Len(lists[dref])
    /\ event_log' = << lists[dref][dix] >> \o event_log
    /\ alarm_status' = apply_alarm(alarm_status, lists[dref][dix])
    /\ dix' = dix + 1
    /\ UNCHANGED <<libVars, session_connected, alarms,
                   lists, pending_events, alarm_refresh_needed, hpc, href,
                   hentry, upc, dref, enqueued>>

\* Line 177: the iterator is past the end of the list; the loop is over.
DrainLoopEnd ==
    /\ upc = "apply"
    /\ dix > Len(lists[dref])
    /\ upc' = "refresh"
    /\ UNCHANGED <<libVars, session_connected, alarms,
                   lists, pending_events, alarm_refresh_needed, alarm_status,
                   event_log, hpc, href, hentry, dref, dix, enqueued>>

\* Lines 232-238 (and 352-375): if the flag is set, clear it and replace
\* alarm_status by what the device reports; the run of the script ends.
DrainRefresh ==
    /\ upc = "refresh"
    /\ IF alarm_refresh_needed
       THEN /\ alarm_refresh_needed' = FALSE
            /\ \E q \in AlarmQueryResults, raised \in BOOLEAN : RefreshAlarms(q, raised)
       ELSE UNCHANGED <<alarm_refresh_needed, alarm_status, alarms>>
    /\ upc' = "idle"
    /\ dref' = 0
    /\ dix' = 0
    /\ UNCHANGED <<libVars, session_connected, lists, pending_events, event_log, hpc,
                   href, hentry, enqueued>>

\* The application on a connected communicator: the dispatcher calls
\* handle_event for the events of the device while the script runs.
NextApp ==
    \/ \E e \in AppEvents : HandleEvent(e)
    \/ HandleAppend
    \/ HandleFlag
    \/ MainInit
    \/ DrainLoad
    \/ DrainSwap
    \/ DrainApply
    \/ DrainLoopEnd
    \/ DrainRefresh

SpecApp == InitConnected /\ [][NextApp]_vars

\* The variables of the application that connecting does not touch.
drainVars == <<lists, pending_events, alarm_refresh_needed, event_log, hpc, href,
               hentry, dref, dix, enqueued>>
\* The variables of the communicator but `result`.
commOther == <<commVars, tableVars, message_queue, readerVars, dispVars, pc, ctx,
               localVars, lineVars, done, waitingAtDisconnect, fanouts, atConnect>>

\* Lines 911-913 and 298-306: the Connect button, which the page shows while
\* the flag is false, calls connect_to_device, which calls
\* communicator.connect; no value has been returned yet.
ConnectToDevice ==
    /\ upc = "idle"
    /\ pc["main"] = "idle"
    /\ ~session_connected
    /\ ncall["main"] < MaxConnects
    /\ upc' = "connect"
    /\ result' = [result EXCEPT !["main"] = PyNone]
    /\ UNCHANGED <<commOther, event_callbacks, drainVars, alarm_status, alarms,
                   session_connected>>

\* A connect_to_device that sets the flag whatever connect returned.
ConnectToDeviceReturn_ignores_result ==
    /\ upc = "connect"
    /\ pc["main"] = "idle"
    /\ result["main"] # PyNone
    /\ session_connected' = TRUE
    /\ event_callbacks' = register_event_callback(event_callbacks, "s1")
    /\ \E q \in AlarmQueryResults, raised \in BOOLEAN : RefreshAlarms(q, raised)
    /\ upc' = "idle"
    /\ UNCHANGED <<commOther, result, drainVars>>

\* Lines 306-317: connect has returned.  On True the flag is set, the handler
\* is registered and refresh_all_data runs; of its queries the model keeps
\* the outcome of refresh_alarm_status.
ConnectToDeviceReturn ==
    /\ upc = "connect"
    /\ pc["main"] = "idle"
    /\ result["main"] # PyNone
    /\ IF result["main"] = PyTrue
       THEN /\ session_connected' = TRUE
            /\ event_callbacks' = register_event_callback(event_callbacks, "s1")
            /\ \E q \in AlarmQueryResults, raised \in BOOLEAN : RefreshAlarms(q, raised)
       ELSE UNCHANGED <<session_connected, event_callbacks, alarm_status, alarms>>
    /\ upc' = "idle"
    /\ UNCHANGED <<commOther, result, drainVars>>

\* Lines 905-907 and 319-322: the Disconnect button, shown while the flag is
\* true, calls disconnect_from_device, which calls communicator.disconnect.
DisconnectFromDevice ==
    /\ upc = "idle"
    /\ pc["main"] = "idle"
    /\ session_connected
    /\ upc' = "disconnect"
    /\ result' = [result EXCEPT !["main"] = PyNone]
    /\ UNCHANGED <<commOther, event_callbacks, drainVars, alarm_status, alarms,
                   session_connected>>

\* Lines 323-324: disconnect has returned; the flag is cleared.
DisconnectFromDeviceReturn ==
    /\ upc = "disconnect"
    /\ pc["main"] = "idle"
    /\ result["main"] # PyNone
    /\ session_connected' = FALSE
    /\ upc' = "idle"
    /\ UNCHANGED <<commOther, result, event_callbacks, drainVars, alarm_status, alarms>>

\* Connecting from the page: the user presses Connect and Disconnect as the
\* page offers them; the port may fail to open, the device may answer the
\* ping with ok, with an error or not at all.
NextUI ==
    \/ ConnectToDevice
    \/ /\ upc = "connect" /\ result["main"] = PyNone
       /\ \E opens \in BOOLEAN : ConnectOpen("main", opens)
    \/ ConnectPing("main")
    \/ ConnectCheck("main")
    \/ DisconnectInConnect("main")
    \/ ConnectToDeviceReturn
    \/ DisconnectFromDevice
    \/ upc = "disconnect" /\ result["main"] = PyNone /\ Disconnect("main")
    \/ JoinReader("main") \/ JoinProcess("main") \/ Close("main")
    \/ DisconnectFromDeviceReturn
    \/ SendCommandStep("main")
    \/ \E st \in {"ok", "error"} : DeviceRespond(st)
    \/ Receive(Len(rx))
    \/ ReceiveExit
    \/ ProcessStep

SpecUI == Init /\ [][NextUI]_vars

\* Lines 352-375: refresh_alarm_status, called by refresh_all_data (line 428)
\* on the script thread while the session is connected (line 354).
RefreshAlarmStatus(q, raised) ==
    /\ upc = "idle"
    /\ session_connected
    /\ RefreshAlarms(q, raised)
    /\ UNCHANGED <<libVars, drainVars, upc, session_connected>>

\* Lines 240-249: force_refresh_alarms stores the list the query returned,
\* and nothing when it returned None or raised.
ForceRefreshAlarms(q, raised) ==
    /\ upc = "idle"
    /\ session_connected
    /\ alarms' = IF raised THEN alarms ELSE q
    /\ alarm_status' = IF raised \/ q = PyNoneList THEN alarm_status ELSE q
    /\ UNCHANGED <<libVars, drainVars, upc, session_connected>>

\* Lines 465-475: clear_alarm; when the communicator's clear_alarm returned a
\* true value it calls refresh_alarm_status.
ClearAlarm(cleared, q, raised) ==
    /\ upc = "idle"
    /\ session_connected
    /\ IF cleared
       THEN RefreshAlarms(q, raised)
       ELSE UNCHANGED <<alarm_status, alarms>>
    /\ UNCHANGED <<libVars, drainVars, upc, session_connected>>

\* The alarm list: the script refreshes, force-refreshes and clears alarms
\* and drains the queue, while the dispatcher queues alarm events for two
\* lights; the query returns a list, an empty list or None, or raises.
NextAlarms ==
    \/ \E e \in {AlarmEvent("light_1", "over_current", 30),
                 AlarmEvent("light_2", "over_temp", 90)} : HandleEvent(e)
    \/ HandleAppend
    \/ HandleFlag
    \/ MainInit
    \/ DrainLoad
    \/ DrainSwap
    \/ DrainApply
    \/ DrainLoopEnd
    \/ DrainRefresh
    \/ \E q \in AlarmQueryResults, raised \in BOOLEAN : RefreshAlarmStatus(q, raised)
    \/ \E q \in AlarmQueryResults, raised \in BOOLEAN : ForceRefreshAlarms(q, raised)
    \/ \E cleared, raised \in BOOLEAN, q \in AlarmQueryResults : ClearAlarm(cleared, q, raised)

SpecAlarms == InitConnected /\ [][NextAlarms]_vars

Spec == SpecCmd

-----------------------------------------------------------------------------
(* Claims about the command channel, checked under SpecCmd *)

\* The calls that have been given an id, with the id.
Allocated ==
    {[call |-> d.call, id |-> d.id] : d \in {e \in done : e.id # 0}}
    \cup {[call |-> CurCall(t), id |-> cmd_id[t]] :
            t \in {u \in Threads : pc[u] # "idle" /\ cmd_id[u] # 0}}

\* Some bytes of the frame of call c are on the wire.
OnWire(c) == \E i \in 1..Len(wire) : wire[i].call = c

\* The call of thread t is pending: the table holds its closure under its id.
Pending(t) ==
    /\ cmd_id[t] \in DOMAIN response_callbacks
    /\ response_callbacks[cmd_id[t]] = CurCall(t)

C2_DistinctIds ==
    \A a, b \in Allocated : a.call # b.call => a.id # b.id

\* Line 153 runs before line 158: when bytes of a call's frame are on the
\* wire the call has passed its registration.
RegisteredBeforeWrite ==
    \A t \in Threads :
        (pc[t] # "idle" /\ OnWire(CurCall(t)))
            => pc[t] \in {"writing", "wait", "finally", "del"}

\* C3: a call registers before it writes, so that from the first byte of its
\* frame until its wait ends the table holds its waiter under its id.
C3_RegisteredBeforeWrite ==
    /\ RegisteredBeforeWrite
    /\ \A t \in Threads : pc[t] \in {"writing", "wait"} => Pending(t)

\* A call that timed out returned None and left no entry of its own.
TimeoutReturnsNone ==
    \A d \in done :
        d.how = "timeout" =>
            /\ d.ret = PyNone
            /\ \A k \in DOMAIN response_callbacks : response_callbacks[k] # d.call

\* C4: a call that timed out returned None, and the response to its command
\* is never returned by a call that began after the timed-out call returned.
C4_LateResponseDropped ==
    /\ TimeoutReturnsNone
    /\ \A d, e \in done :
         (d.how = "timeout" /\ d.call \in e.after /\ e.ret.isdict) => e.ret.re # d.call

\* After a call has timed out the communicator is still connected and both
\* threads are still running.
TimeoutKeepsConnection ==
    (\E d \in done : d.how = "timeout") =>
        /\ is_connected
        /\ running
        /\ serial_port = "open"
        /\ ReaderAlive
        /\ ProcessAlive

\* C21: a timeout does not change the connection, and a call made after a
\* call timed out that returns a response returns the response to its own
\* command.
C21_UsableAfterTimeout ==
    /\ TimeoutKeepsConnection
    /\ \A d, e \in done :
         (d.how = "timeout" /\ d.call \in e.after /\ e.how = "response") =>
             e.ret.isdict /\ e.ret.re = e.call

\* Lines 168-170: a write that raises is caught; the call will return None,
\* and neither the connection nor the two threads are touched.
WriteFailureCaught ==
    \A t \in Threads :
        (pc[t] \in {"write", "writing"} /\ pc'[t] = "finally") =>
            /\ ret'[t] = PyNone
            /\ UNCHANGED <<connected, running, serial_port, rpc, dpc>>

\* C22: a write failure inside send_command is caught and the call returns
\* None to its caller: nothing is raised out of send_command, and the step
\* neither disconnects nor stops a thread.
C22_WriteFailureIsNone ==
    [][/\ WriteFailureCaught
       /\ \A t \in Threads :
            (how[t] = "error" /\ pc[t] \in {"finally", "del"}
                              /\ pc'[t] \notin {"finally", "del"}) =>
                \E d \in done' : d.call = CurCall(t) /\ d.ret = PyNone]_vars

\* The calls and the responses of SpecLive.
LiveCalls ==
    {<<"main", k>> : k \in 2..(MaxCalls + 1)} \cup {<<"worker", k>> : k \in 1..MaxCalls}
LiveResponses == {Msg("resp", i, c, "ok") : i \in 2..(MaxCalls + 1), c \in LiveCalls}

\* The reader has received response m, which carries the id under which call
\* c is pending, while c waits.
ReceivedWhilePending(c, m) ==
    /\ CurCall(c[1]) = c
    /\ pc[c[1]] = "wait"
    /\ Pending(c[1])
    /\ m.id = cmd_id[c[1]]
    /\ seq_contains(message_queue, m)

\* C25: under fair scheduling, when a response carrying the id of a pending
\* command has been received before the command's deadline, the command's
\* call eventually returns a response, and one that carries its id.
C25_ResponseReturned ==
    \A c \in LiveCalls :
        (\E m \in LiveResponses : ReceivedWhilePending(c, m))
            ~> (\E d \in done : d.call = c /\ d.ret \in LiveResponses /\ d.ret.id = d.id)

\* C5: the table holds no entry under the id of a call that has returned, and
\* is empty when no call is in progress.
C5_NoLeakedWaiter ==
    /\ \A d \in done : d.id # 0 => d.id \notin DOMAIN response_callbacks
    /\ (\A t \in Threads : pc[t] = "idle") => DOMAIN response_callbacks = {}

\* C7: at most one thread is inside serial_port.write at a time, and the
\* parts of two frames are never interleaved on the wire.
C7_WritesSerialized ==
    /\ Cardinality({t \in Threads : pc[t] = "writing"}) <= 1
    /\ \A i \in 1..(Len(wire) - 1) :
         wire[i].part = "head" => wire[i + 1].call = wire[i].call

\* C18: a send_command called while the communicator is not connected returns
\* None at once and changes nothing: nothing is written, no id is consumed,
\* no callback is registered.
C18_NotConnectedReturnsNone ==
    [][\A t \in Threads :
          (pc[t] = "idle" /\ ~connected /\ ncall'[t] = ncall[t] + 1) =>
              /\ pc'[t] = "idle"
              /\ \E d \in done' : /\ d.call = <<t, ncall'[t]>>
                                  /\ d.ret = PyNone
                                  /\ ~OnWire(d.call)'
              /\ wire' = wire
              /\ command_id_counter' = command_id_counter
              /\ response_callbacks' = response_callbacks]_vars

\* A call made after an earlier one was given an id, while not connected, has
\* returned None.
C18_Witness_CalledAfterDisconnect ==
    /\ ~connected
    /\ command_id_counter > 2
    /\ \E d \in done : d.how = "not connected" /\ d.ret = PyNone

\* C20: the fetch of line 244 finds the entry the test of line 242 saw: the
\* dispatcher never raises KeyError for an entry removed in between.
C20_FetchFindsEntry ==
    [][(dpc = "fetch" /\ dpc' = "get") => dmsg.id \in DOMAIN response_callbacks]_vars

-----------------------------------------------------------------------------
(* Claims about disconnect, checked under SpecDisc and SpecClose *)

\* No thread is inside disconnect.
DisconnectReturned ==
    ~connected /\ \A t \in Threads : pc[t] \notin {"d_stop", "d_join_r", "d_join_p", "d_close"}

\* C6: a send_command call that was blocked in wait() when disconnect began
\* is no longer blocked when disconnect has returned, and does not return by
\* the expiry of its own timeout.
C6_WaitersReleased ==
    /\ DisconnectReturned =>
         \A t \in Threads :
            CurCall(t) \in waitingAtDisconnect => ~(pc[t] = "wait" /\ ~response_event[t])
    /\ \A d \in done : d.call \in waitingAtDisconnect => d.how # "timeout"

\* The reader, the dispatcher: the thread was started and has not ended.

\* C14: disconnect returns True, on a communicator that was never connected
\* and when called again; and once it has returned neither the reader thread
\* nor the dispatch thread is running.
C14_DisconnectIdempotent ==
    /\ \A t \in Threads : result[t] \in {PyNone, PyTrue, PyFalse}
    /\ DisconnectReturned => ~ReaderAlive /\ ~ProcessAlive

\* C15: disconnect returns from line 109 having been through both joins
\* (lines 90-98: both thread attributes are cleared), and at its return the
\* port attribute is cleared and the communicator is not connected, whether
\* or not the threads have ended.
C15_DisconnectReleases ==
    [][\A t \in Threads :
         (pc[t] = "d_close" /\ pc'[t] = "idle") =>
             /\ receive_thread = "none" /\ process_thread = "none"
             /\ ~running'
             /\ serial_port' = "none"
             /\ ~connected'
             /\ result'[t] = PyTrue]_vars

\* C15 witness: disconnect has returned with the port closed while the reader
\* and the dispatcher, whose joins timed out, have not ended yet.
C15_Witness_ClosedWhileAlive ==
    /\ DisconnectReturned
    /\ result["main"] = PyTrue
    /\ serial_port = "none"
    /\ ReaderAlive /\ ProcessAlive

-----------------------------------------------------------------------------
(* Claims about connect, checked under SpecConnect *)

\* The UI thread's connect() has returned False.
ConnectFailed == pc["main"] = "idle" /\ result["main"] = PyFalse

\* After a connect that returned False the attributes are those of a
\* communicator that is not connected, and the table is empty.
ConnectFailureClears ==
    ConnectFailed =>
        /\ ~connected /\ ~running
        /\ serial_port = "none"
        /\ receive_thread = "none" /\ process_thread = "none"
        /\ response_callbacks = << >>

\* C16: after a connect that returned False the communicator is not
\* connected, the port is closed and cleared, the table holds no Pending
\* Command, and neither the reader nor the dispatch thread is running.
C16_ConnectFailureReleases ==
    /\ ConnectFailureClears
    /\ ConnectFailed => ~ReaderAlive /\ ~ProcessAlive

\* The probe of connect has succeeded: the ping returned a response whose
\* status is ok.
ProbeSucceeded == \E d \in done : d.call = PingCall /\ ping_ok(d.ret)

\* C17: the communicator reports connected, and send_command accepts
\* commands, only after the probe of connect has succeeded.
C17_ConnectedAfterProbe ==
    /\ is_connected => ProbeSucceeded
    /\ \A t \in Threads : (ctx[t] = "none" /\ InCall(t)) => ProbeSucceeded

-----------------------------------------------------------------------------
(* Claims about reconnecting, checked under SpecReconnect *)

\* C24: the reader's text buffer is empty once the communicator is
\* disconnected and when a connection begins, so that line 199 never appends
\* the bytes of a connection to a partial frame of an earlier one.
C24_BufferResetOnDisconnect ==
    [][/\ (connected /\ ~connected') => buffer' = << >>
       /\ (~connected /\ connected') => buffer' = << >>]_vars

\* C26: there is never more than one running reader nor more than one
\* running dispatch thread: when connect sets `running` and starts its two
\* threads (lines 64-70), no thread of an earlier connection is still alive,
\* whose loop (lines 191, 230) would go on beside the new one.
C26_OneReaderOneDispatcher ==
    [][(~running /\ running') => (~ReaderAlive /\ ~ProcessAlive)]_vars

\* C32: in sequential use the id counter only grows, also across disconnect
\* and connect; no id is given to two calls of the communicator; and a
\* response a call returns is the response to its own command, never a late
\* response to a command of an earlier connection.
C32_IdsNeverReused ==
    [][/\ command_id_counter' >= command_id_counter
       /\ \A d, e \in done' : (d.id # 0 /\ d.id = e.id) => d.call = e.call
       /\ \A d \in done' : \A t \in Threads :
            (d.id # 0 /\ cmd_id'[t] = d.id) => d.call = <<t, ncall'[t]>>
       /\ \A d \in done' : d.ret.isdict => d.ret.re = d.call
       /\ (dpc = "fetch" /\ dmsg.id \in DOMAIN response_callbacks)
              => dmsg.re = response_callbacks[dmsg.id]]_vars

\* C32 witness: the ping of the second connection has returned its response
\* after the late response to a command of the first connection, which had
\* timed out, was dispatched in the second connection.
C32_Witness_LateResponseUnmatched ==
    /\ \E d \in done : d.how = "timeout" /\ d.call = <<"main", 2>>
    /\ \E d \in done : d.how = "response" /\ d.call = <<"main", 3>>
    /\ \E i \in 1..Len(dispatched) :
         /\ dispatched[i].re = <<"main", 2>>
         /\ i > atConnect.dispatched
    /\ atConnect.dispatched >= 1
    /\ connected /\ pc["main"] = "idle"

\* C34: a connect called on a connected communicator disconnects in full
\* before it opens the port: at line 51 the previous port has been closed,
\* the previous threads have been told to stop (running is False) and
\* joined, and only then are the new port opened and the new threads started.
C34_DisconnectsBeforeOpening ==
    [][\A t \in Threads :
          /\ (pc[t] = "idle" /\ connected /\ ctx'[t] \in {"connect", "reconnect"})
                 => pc'[t] = "d_stop" /\ serial_port' = serial_port
          /\ (pc[t] = "c_open" /\ pc'[t] # "c_open")
                 => /\ serial_port = "none"
                    /\ ~running
                    /\ receive_thread = "none" /\ process_thread = "none"
                    /\ ~connected]_vars

\* C34 witness: the connect called on the connected communicator has
\* disconnected, opened the port again, and its ping has succeeded.
C34_Witness_Reconnected ==
    /\ ncall["main"] = 2
    /\ \E d \in done : d.call = <<"main", 2>> /\ d.how = "response" /\ d.ret.status = "ok"
    /\ atConnect.dispatched >= 1
    /\ connected /\ pc["main"] = "idle" /\ result["main"] = PyTrue

\* A value that was enqueued before the threads of the current connection
\* started has been dispatched since they started.
CarriedOverDispatched ==
    /\ atConnect.dispatched < atConnect.extracted
    /\ Len(dispatched) > atConnect.dispatched

\* C31: after a successful connect the dispatcher of the new connection
\* dispatches no message that was received, and was still waiting in the
\* message queue, during an earlier connection.
C31_QueueNotCarriedOver ==
    (connected /\ pc["main"] = "idle" /\ result["main"] = PyTrue)
        => ~CarriedOverDispatched

-----------------------------------------------------------------------------
(* Claims about the receive pipeline, checked under SpecPipe *)

\* s is a prefix of t.
IsPrefix(s, t) == Len(s) <= Len(t) /\ \A i \in 1..Len(s) : s[i] = t[i]

\* C8: the dispatcher takes the messages in the order the framer extracted
\* them: what it has taken is a prefix of what was extracted, and the queue
\* holds the rest in order.
C8_Fifo ==
    /\ IsPrefix(dispatched, extracted)
    /\ extracted = dispatched \o message_queue

\* C8 witness: the dispatcher has taken a message that the device sent while
\* two different later ones wait in the queue.
C8_Witness_TakenWhileQueued ==
    /\ Len(dispatched) >= 2
    /\ Len(message_queue) >= 2
    /\ message_queue[1] # message_queue[2]
    /\ dispatched[2] # message_queue[1]

\* C9: a line that is no structured message (no JSON object) is never
\* enqueued for the dispatcher, nor taken by it.
C9_OnlyObjectsEnqueued ==
    /\ \A i \in 1..Len(extracted) : extracted[i].isdict
    /\ \A i \in 1..Len(dispatched) : dispatched[i].isdict

\* C10: during the fan-out of an event the subscribers before the iterator
\* have each been invoked with it, in list order, whether or not one raised;
\* so when the iterator is past the end all of them have.
C10_FanoutIsolated ==
    dpc = "fanout" =>
        LET n == didx - 1 IN
        /\ n <= Len(event_callbacks)
        /\ n <= Len(delivered)
        /\ \A i \in 1..n :
             /\ delivered[Len(delivered) - n + i][1] = event_callbacks[i]
             /\ delivered[Len(delivered) - n + i][2] = dmsg

\* C10 witness: the first subscriber raised on an event, the second received
\* the same event, and the dispatcher went on to fan out the next event.
C10_Witness_RaiseThenNext ==
    /\ Len(delivered) >= 3
    /\ delivered[1][3] = TRUE
    /\ delivered[2][2] = delivered[1][2]
    /\ delivered[2][1] # delivered[1][1]
    /\ delivered[3][2] # delivered[1][2]

\* The events among the messages of a sequence, in order.
IsEvent(m) == m.isdict /\ m.type = "event"
EventsOf(q) == SelectSeq(q, IsEvent)

\* The invocations fan-out f has made: of the subscribers of the list as it
\* was when the loop ended, or, while the loop runs, of those before the
\* iterator.
InvokedBy(f) ==
    LET l == IF f.open THEN SubSeq(event_callbacks, 1, didx - 1) ELSE f.end
    IN [j \in 1..Len(l) |-> <<l[j], f.msg>>]

\* The invocations of a sequence of fan-outs, one fan-out after the other.
RECURSIVE InvokedByAll(_)
InvokedByAll(fs) ==
    IF fs = << >> THEN << >> ELSE InvokedBy(Head(fs)) \o InvokedByAll(Tail(fs))

\* C11: the events are fanned out one at a time in the order the framer
\* extracted them, and the invocations made are, event after event, those of
\* every subscriber of the list in list order (the order of registration):
\* all of event k before any of event k+1.
C11_EventOrder ==
    /\ [i \in 1..Len(fanouts) |-> fanouts[i].msg] = EventsOf(dispatched)
    /\ IsPrefix(EventsOf(dispatched), EventsOf(extracted))
    /\ \A i \in 1..Len(fanouts) :
         fanouts[i].open <=> (i = Len(fanouts) /\ dpc = "fanout" /\ dmsg = fanouts[i].msg)
    /\ [i \in 1..Len(delivered) |-> <<delivered[i][1], delivered[i][2]>>]
         = InvokedByAll(fanouts)

\* C11 witness: the first event went to the one subscriber there was; a second
\* subscriber registered during the fan-out of the second event received it
\* after the first subscriber had.
C11_Witness_TwoEventsTwoSubscribers ==
    /\ Len(fanouts) = 2
    /\ Len(fanouts[1].end) = 1
    /\ fanouts[2].open
    /\ Len(fanouts[2].start) = 1
    /\ Len(event_callbacks) = 2
    /\ didx = 3
    /\ Len(delivered) = 3

-----------------------------------------------------------------------------
(* Claims about the two threads, checked under SpecResilient *)

\* The dispatcher takes a message that is neither a response nor an event.
TakesOtherType ==
    /\ dpc = "get"
    /\ Len(dispatched') = Len(dispatched) + 1
    /\ LET m == dispatched'[Len(dispatched')]
       IN ~IsEvent(m) /\ ~(m.isdict /\ m.type = "resp")

\* C23: the reader and the dispatch thread end only once disconnect has
\* cleared `running` (or `connected`), whatever the device sent, whatever read
\* failed and whatever subscriber raised; a message of another type is
\* dropped: no waiter is signalled and no subscriber invoked.
C23_ThreadsResilient ==
    [][/\ (ReaderAlive /\ ~ReaderAlive') => (~running \/ ~connected)
       /\ (ProcessAlive /\ ~ProcessAlive') => ~running
       /\ TakesOtherType =>
            /\ dpc' = "get"
            /\ response_event' = response_event
            /\ response' = response
            /\ delivered' = delivered]_vars

\* Both threads run, connected, after the dispatcher has taken a number and
\* a message of another type and a subscriber has raised.
C23_Witness_StillRunning ==
    /\ ReaderAlive /\ ProcessAlive /\ running /\ connected
    /\ \E i \in 1..Len(dispatched) : ~dispatched[i].isdict
    /\ \E i \in 1..Len(dispatched) : dispatched[i].isdict /\ dispatched[i].type = "cmd"
    /\ \E i \in 1..Len(delivered) : delivered[i][3]

-----------------------------------------------------------------------------
(* Claims about responses nobody waits for, checked under SpecStray *)

\* The dispatcher takes a response whose id is not in the table.
TakesUnmatched ==
    /\ dpc = "get"
    /\ Len(dispatched') = Len(dispatched) + 1
    /\ LET m == dispatched'[Len(dispatched')]
       IN m.isdict /\ m.type = "resp" /\ m.id \notin DOMAIN response_callbacks

\* C19: a response whose id matches no entry of the table is discarded: no
\* waiter is signalled, no subscriber is invoked, the table is unchanged, and
\* the dispatcher goes on to the next message.
C19_UnmatchedDiscarded ==
    [][TakesUnmatched =>
          /\ response_event' = response_event
          /\ response' = response
          /\ delivered' = delivered
          /\ fanouts' = fanouts
          /\ response_callbacks' = response_callbacks
          /\ dpc' = "get"
          /\ running']_vars

\* With a subscriber registered, the dispatcher has dropped a response to no
\* command and the late response to a call that timed out, and has then
\* delivered an event.
C19_Witness_DroppedThenEvent ==
    /\ event_callbacks # << >>
    /\ \E i, j, k \in 1..Len(dispatched) :
         /\ i < k /\ j < k
         /\ dispatched[i] = StrayResponse
         /\ dispatched[j].type = "resp"
         /\ \E d \in done : d.how = "timeout" /\ d.call = dispatched[j].re
         /\ IsEvent(dispatched[k])
    /\ delivered # << >>

-----------------------------------------------------------------------------
(* Claims about the application, checked under SpecApp *)

\* The entries the running drain has applied so far, in order.
Batch == SubSeq(lists[dref], 1, dix - 1)

\* The alarm-trigger entries of a sequence that name light l.
TriggersOf(q, l) ==
    SelectSeq(q, LAMBDA x : is_trigger(x.event) /\ light_of(x.event.source) = l)

OnePerLight(status) ==
    \A i, j \in 1..Len(status) : status[i].light = status[j].light => i = j

Applied == [i \in 1..Len(event_log) |-> event_log[Len(event_log) - i + 1]]

\* Entry x waits for a drain: it is in the list pending_events refers to, or
\* ahead of the iterator in the list a drain is applying.
Queued(x) ==
    \/ seq_contains(lists[pending_events], x)
    \/ /\ upc = "apply"
       /\ \E i \in dix..Len(lists[dref]) : lists[dref][i] = x

\* C28: no event handle_event enqueued is lost or applied twice, and the
\* events are applied in the order of their enqueuing: what has been applied
\* is a prefix of what was enqueued, and the rest is still queued.
C28_HandOffLossless ==
    /\ IsPrefix(Applied, enqueued)
    /\ \A k \in (Len(Applied) + 1)..Len(enqueued) : Queued(enqueued[k])

C36_AlarmListNeverNone ==
    alarm_status # PyNoneList

\* C36 witness: the last query returned None to an operation that has ended,
\* no queued event has been applied, and the list still holds the alarms of
\* an earlier refresh: force_refresh_alarms left it unchanged.
C36_Witness_NoneLeftUnchanged ==
    /\ upc = "idle"
    /\ alarms = PyNoneList
    /\ event_log = << >>
    /\ alarm_status = << DeviceAlarm(1) >>

-----------------------------------------------------------------------------
(* Claims about the subscriber list, checked under SpecSubs *)

\* The elements of a sequence.
Range(l) == {l[i] : i \in 1..Len(l)}

\* The subscribers that were registered when fan-out f began and have not
\* been unregistered during it.
Steady(f) == Range(f.start) \ f.removed

\* The number of invocations of subscriber s with message m.
Invocations(s, m) ==
    Cardinality({j \in 1..Len(delivered) : delivered[j][1] = s /\ delivered[j][2] = m})

\* The iterator of the loop of line 249 is exhausted: the loop ends here.
Exhausted == dpc = "fanout" /\ didx > Len(event_callbacks)

\* C12: during a fan-out a subscriber that stays registered throughout is
\* never invoked twice with the event, and has been invoked once when the
\* loop ends, whatever is registered or unregistered meanwhile.
C12_FanoutTolerant ==
    \A i \in 1..Len(fanouts) :
        fanouts[i].open =>
            \A s \in Steady(fanouts[i]) :
                /\ Invocations(s, fanouts[i].msg) <= 1
                /\ Exhausted => Invocations(s, fanouts[i].msg) = 1

\* No element occurs twice in l.
NoDup(l) == \A i, j \in 1..Len(l) : l[i] = l[j] => i = j

\* C13: a subscriber occurs at most once in the list; a register of a
\* subscriber that is registered and an unregister of one that is not change
\* nothing, and neither does the repetition of a register or an unregister;
\* and in a fan-out during which nothing is unregistered no subscriber is
\* invoked twice, and every one of the list has been invoked once when the
\* loop ends.
C13_Idempotent ==
    /\ NoDup(event_callbacks)
    /\ \A cb \in Subscribers :
         LET l == event_callbacks
             r == register_event_callback(l, cb)
             u == unregister_event_callback(l, cb)
         IN /\ seq_contains(r, cb) /\ NoDup(r)
            /\ register_event_callback(r, cb) = r
            /\ seq_contains(l, cb) => r = l
            /\ ~seq_contains(u, cb) /\ NoDup(u)
            /\ unregister_event_callback(u, cb) = u
            /\ ~seq_contains(l, cb) => u = l
    /\ \A i \in 1..Len(fanouts) :
         (fanouts[i].open /\ fanouts[i].removed = {}) =>
             /\ \A s \in Subscribers : Invocations(s, fanouts[i].msg) <= 1
             /\ Exhausted => \A s \in Range(event_callbacks) :
                                 Invocations(s, fanouts[i].msg) = 1

\* C13 witness: with no subscriber at the first event, two subscribers were
\* then registered, and each has been invoked once with the second event.
C13_Witness_OneInvocation ==
    /\ Len(fanouts) = 2
    /\ fanouts[1].end = << >>
    /\ fanouts[2].open /\ fanouts[2].removed = {}
    /\ Exhausted
    /\ Len(event_callbacks) = 2
    /\ Len(delivered) = 2

-----------------------------------------------------------------------------
(* Claims about the facade operations, checked under SpecFacade *)

\* A facade operation of thread t returns in this step.
FacadeReturns(t) == pc[t] = "f_return" /\ ctx[t] \in Facades /\ pc'[t] = "idle"
\* send_command gave the facade a response whose data.status is "ok".
GotOk(t) == ret[t].isdict /\ ret[t].status = "ok"

\* C29: a boolean facade operation returns True exactly when send_command
\* gave it a response whose data.status is "ok", and the boolean False in
\* every other case: no response (timeout, not connected, write error), or a
\* response whose status is another value or absent.
C29_BooleanFacade ==
    [][\A t \in Threads :
          (FacadeReturns(t) /\ ctx[t] \in BoolFacades) =>
              result'[t] = IF GotOk(t) THEN PyTrue ELSE PyFalse]_vars

\* C30: a query facade operation returns None when send_command gave it no
\* response or a response whose status is not "ok", and the result field of
\* the response otherwise; get_alarm_status returns the list of active alarms
\* of a successful response, the empty list when that response lists none,
\* and None on failure or timeout.
C30_QueryFacade ==
    [][\A t \in Threads :
          (FacadeReturns(t) /\ ctx[t] \in QueryFacades) =>
              /\ ~GotOk(t) => result'[t] = PyNone
              /\ (GotOk(t) /\ ret[t].result = "items") => result'[t] = PyList("items")
              /\ (GotOk(t) /\ ret[t].result = "empty") => result'[t] = PyList("empty")
              /\ (GotOk(t) /\ ret[t].result = "absent") =>
                     result'[t] = IF ctx[t] = "get_alarm_status"
                                  THEN PyList("empty") ELSE PyNone]_vars

\* C30 witness: a first query timed out and returned None, and the next one
\* returned the empty list of a successful response.
C30_Witness_TimeoutThenList ==
    /\ \E d \in done : d.how = "timeout"
    /\ \E d \in done : d.how = "response" /\ d.ret.status = "ok" /\ d.ret.result = "empty"
    /\ result["main"] = PyList("empty")
    /\ pc["main"] = "idle"

-----------------------------------------------------------------------------
(* Claims about a subscriber that sends, checked under SpecCallback *)

\* C33: a send_command called from inside an event subscriber runs on the
\* dispatch thread, which therefore delivers nothing while the call waits:
\* the call never gets its response, it returns None when its timeout ends,
\* and its entry is gone from the response table when it has returned.
C33_CallbackSendTimesOut ==
    /\ dpc = "callback" => ~response_event["dispatch"]
    /\ \A d \in done :
         d.call[1] = "dispatch" =>
             /\ d.ret = PyNone
             /\ d.how = "timeout"
             /\ \A i \in DOMAIN response_callbacks : response_callbacks[i] # d.call

=============================================================================
